---- MODULE Spec2Model ----
(***************************************************************************)
(* A model of the PDA derivation, Base58 and account-layout decoding code  *)
(* of the galileo reverse-engineering toolkit (src/reverser).              *)
(*                                                                         *)
(* Widths are scaled: a public key is KeyLen = 2 bytes where the source    *)
(* has 32, so the field prime 2^255 - 19 becomes 2^15 - 19 = 32749, which  *)
(* is again a prime congruent to 5 modulo 8 (the square-root construction  *)
(* of is_on_curve relies on exactly that).  Bytes are 0..255, the Base58   *)
(* alphabet has its 58 characters and the bump runs over 255..0, as in the *)
(* source.                                                                 *)
(***************************************************************************)
EXTENDS Integers, Sequences, FiniteSets, TLC

\* ------------------------------------------------------------------ sizes

\* The byte width of a public key and of a digest (32 in the source).
KeyLen == 2
\* The longest seed create_program_address accepts (32 in the source).
MaxSeedLen == 2
\* The first bump find_program_address tries: range(255, -1, -1).
MaxBump == 255
\* How many seeds a derivation request of the model has at most.
MaxSeeds == 2

Decoders == {"aquifer", "goonfi", "humidifi", "obric_v2", "saros", "tessera_v", "zerofi"}

\* ------------------------------------------------------------ byte strings

Repeat(ch, n) == [i \in 1..n |-> ch]

Zeros(n) == Repeat(0, n)

\* int.from_bytes(data, "big")
RECURSIVE FromBytesBE(_)
FromBytesBE(data) ==
    IF data = <<>> THEN 0
    ELSE FromBytesBE(SubSeq(data, 1, Len(data) - 1)) * 256 + data[Len(data)]

\* int.from_bytes(data, "little")
RECURSIVE FromBytesLE(_)
FromBytesLE(data) ==
    IF data = <<>> THEN 0 ELSE Head(data) + 256 * FromBytesLE(Tail(data))

\* num.to_bytes((num.bit_length() + 7) // 8, "big"): the shortest big-endian form.
RECURSIVE MinBytesBE(_)
MinBytesBE(num) ==
    IF num = 0 THEN <<>> ELSE MinBytesBE(num \div 256) \o <<num % 256>>

\* bytes.rjust(width, b"\x00")
RJust(raw, width) == Zeros(width - Len(raw)) \o raw

\* The number of leading elements of s equal to x.
RECURSIVE LeadingCount(_, _)
LeadingCount(s, x) ==
    IF s = <<>> \/ Head(s) # x THEN 0 ELSE 1 + LeadingCount(Tail(s), x)

RECURSIVE Concat(_)
Concat(ss) == IF ss = <<>> THEN <<>> ELSE Head(ss) \o Concat(Tail(ss))

\* ------------------------------------------------------------------ Base58

BASE58_ALPHABET ==
    << "1", "2", "3", "4", "5", "6", "7", "8", "9",
       "A", "B", "C", "D", "E", "F", "G", "H", "J", "K", "L", "M", "N", "P", "Q",
       "R", "S", "T", "U", "V", "W", "X", "Y", "Z",
       "a", "b", "c", "d", "e", "f", "g", "h", "i", "j", "k", "m", "n", "o", "p",
       "q", "r", "s", "t", "u", "v", "w", "x", "y", "z" >>

\* BASE58_INDEX[ch] / BASE58_ALPHABET.index(ch)
BASE58_INDEX(ch) == CHOOSE i \in 0..57 : BASE58_ALPHABET[i + 1] = ch

\* while num > 0: num, rem = divmod(num, 58); encoded = ALPHABET[rem] + encoded
RECURSIVE EncodeDigits(_)
EncodeDigits(num) ==
    IF num = 0 THEN <<>>
    ELSE EncodeDigits(num \div 58) \o <<BASE58_ALPHABET[(num % 58) + 1]>>

\* for ch in data: num = num * 58 + INDEX[ch]
RECURSIVE DecodeDigits(_)
DecodeDigits(text) ==
    IF text = <<>> THEN 0
    ELSE DecodeDigits(SubSeq(text, 1, Len(text) - 1)) * 58
         + BASE58_INDEX(text[Len(text)])

\* aquifer, goonfi_utils, humidifi, saros, zerofi: zero encodes as len(data) ones.
b58encode_std(data) ==
    LET num == FromBytesBE(data) IN
    IF num = 0 THEN Repeat("1", Len(data))
    ELSE Repeat("1", LeadingCount(data, 0)) \o EncodeDigits(num)

\* tessera_v: zero encodes as the single character "1".
b58encode_tessera(data) ==
    LET num == FromBytesBE(data) IN
    IF num = 0 THEN <<"1">>
    ELSE Repeat("1", LeadingCount(data, 0)) \o EncodeDigits(num)

\* obric_v2: "1" * prefix + (encoded or "1").
b58encode_obric(data) ==
    LET encoded == EncodeDigits(FromBytesBE(data)) IN
    Repeat("1", LeadingCount(data, 0)) \o (IF encoded = <<>> THEN <<"1">> ELSE encoded)

b58encode(dec, data) ==
    CASE dec = "tessera_v" -> b58encode_tessera(data)
      [] dec = "obric_v2" -> b58encode_obric(data)
      [] OTHER -> b58encode_std(data)

\* aquifer: b"\x00" * pad + raw.rjust(32, b"\x00")
b58decode_aquifer(text) ==
    LET num == DecodeDigits(text)
        raw == MinBytesBE(num)
        pad == LeadingCount(text, "1")
    IN  Zeros(pad) \o RJust(raw, KeyLen)

\* goonfi_utils, tessera_v, obric_v2: raw = num.to_bytes(32, "big");
\* b"\x00" * pad + raw[len(raw) - 32:]   (to_bytes raises OverflowError when
\* num needs more than 32 bytes: modelled as the value <<"OverflowError">>).
b58decode_goonfi(text) ==
    LET num == DecodeDigits(text)
        pad == LeadingCount(text, "1")
    IN  IF Len(MinBytesBE(num)) > KeyLen THEN <<"OverflowError">>
        ELSE LET raw == RJust(MinBytesBE(num), KeyLen)
             IN  Zeros(pad) \o SubSeq(raw, Len(raw) - KeyLen + 1, Len(raw))

\* humidifi, saros, zerofi: raw = b"\x00" * pad + raw; return raw.rjust(32, b"\x00")
b58decode_humidifi(text) ==
    LET num == DecodeDigits(text)
        pad == LeadingCount(text, "1")
    IN  RJust(Zeros(pad) \o MinBytesBE(num), KeyLen)

b58decode(dec, text) ==
    CASE dec = "aquifer" -> b58decode_aquifer(text)
      [] dec \in {"goonfi", "tessera_v", "obric_v2"} -> b58decode_goonfi(text)
      [] OTHER -> b58decode_humidifi(text)

\* ------------------------------------------------------------------ SHA-256

\* The modulus of a KeyLen-byte digest.
RECURSIVE Pow(_, _)
Pow(b, e) == IF e = 0 THEN 1 ELSE b * Pow(b, e - 1)

DigestSpace == Pow(256, KeyLen)

\* num.to_bytes(width, "little")
RECURSIVE ToBytesLE(_, _)
ToBytesLE(num, width) ==
    IF width = 0 THEN <<>> ELSE <<num % 256>> \o ToBytesLE(num \div 256, width - 1)

\* Square-and-multiply from the lowest bit of e upwards: acc holds the product
\* of the squares selected so far; a zero factor makes the power zero.
RECURSIVE ModPowAcc(_, _, _, _)
ModPowAcc(acc, b, e, m) ==
    IF e = 0 THEN acc
    ELSE IF acc = 0 \/ b = 0 THEN 0
    ELSE ModPowAcc(IF e % 2 = 1 THEN (acc * b) % m ELSE acc, (b * b) % m, e \div 2, m)

\* pow(b, e, m) for e >= 0
ModPow(b, e, m) == ModPowAcc(1 % m, b % m, e, m)

\* hasher.update(chunk): the hasher's state over the bytes msg[lo..hi], in
\* order. The state of a range is mixed from the states of its two halves with
\* different multipliers, so that exchanging bytes or chunks changes it.
RECURSIVE Absorb(_, _, _)
Absorb(msg, lo, hi) ==
    IF lo > hi THEN 7
    ELSE IF lo = hi THEN (msg[lo] * 167 + 13) % DigestSpace
    ELSE LET mid == (lo + hi) \div 2 IN
         (Absorb(msg, lo, mid) * 251 + Absorb(msg, mid + 1, hi) * 2053 + 1)
             % DigestSpace

\* The state after the whole message.
Absorbed(msg) == Absorb(msg, 1, Len(msg))

\* hashlib.sha256(msg).digest(): a fixed, order-sensitive compression of the
\* whole message to a digest of KeyLen bytes (the library's function is not
\* of this repository; only its being a function of the byte string is used).
sha256(msg) == ToBytesLE((Absorbed(msg) * 2053 + 13849) % DigestSpace, KeyLen)

\* b"ProgramDerivedAddress"
PDA_MARKER ==
    << 80, 114, 111, 103, 114, 97, 109, 68, 101, 114, 105, 118, 101, 100,
       65, 100, 100, 114, 101, 115, 115 >>

\* ----------------------------------------------------------------- Ed25519

\* ED25519_P = 2**255 - 19, at the model's key width.
ED25519_P == Pow(2, 8 * KeyLen - 1) - 19

\* ED25519_D = (-121665 * pow(121666, -1, ED25519_P)) % ED25519_P
ED25519_D ==
    ((0 - (121665 % ED25519_P)) * ModPow(121666 % ED25519_P, ED25519_P - 2, ED25519_P))
        % ED25519_P

\* y = int.from_bytes(pubkey, "little") & ((1 << 255) - 1)
PointY(pubkey) == FromBytesLE(pubkey) % Pow(2, 8 * KeyLen - 1)

\* sign = pubkey[31] >> 7
PointSign(pubkey) == pubkey[KeyLen] \div 128

\* y2 = (y * y) % p; u = (y2 - 1) % p
CurveU(y) == (((y * y) % ED25519_P) - 1) % ED25519_P

\* v = (d * y2 + 1) % p
CurveV(y) == (ED25519_D * ((y * y) % ED25519_P) + 1) % ED25519_P

\* x2 = (u * pow(v, p - 2, p)) % p
CurveX2(y) == (CurveU(y) * ModPow(CurveV(y), ED25519_P - 2, ED25519_P)) % ED25519_P

\* x = pow(x2, (p + 3) // 8, p)
FirstRoot(x2) == ModPow(x2, (ED25519_P + 3) \div 8, ED25519_P)

\* x = (x * pow(2, (p - 1) // 4, p)) % p
SecondRoot(x) == (x * ModPow(2, (ED25519_P - 1) \div 4, ED25519_P)) % ED25519_P

IsRoot(x, x2) == (x * x - x2) % ED25519_P = 0

\* if (x * x - x2) % p != 0: x = (x * pow(2, (p - 1) // 4, p)) % p
FixRoot(x, x2) == IF IsRoot(x, x2) THEN x ELSE SecondRoot(x)

\* if (x % 2) != sign: x = (-x) % p
FixSign(x, sign) == IF (x % 2) # sign THEN (0 - x) % ED25519_P ELSE x

\* The second "return False" of the root search, else the x the code ends with.
CheckedRoot(x, x2, sign) == IF IsRoot(x, x2) THEN FixSign(x, sign) ELSE -1

RootOf(x2, sign) == CheckedRoot(FixRoot(FirstRoot(x2), x2), x2, sign)

\* The x the code ends with, or -1 where it returns False before having one.
RecoveredX(pubkey) ==
    IF Len(pubkey) # KeyLen THEN -1
    ELSE IF PointY(pubkey) >= ED25519_P THEN -1
    ELSE IF CurveV(PointY(pubkey)) = 0 THEN -1
    ELSE RootOf(CurveX2(PointY(pubkey)), PointSign(pubkey))

\* return not (x == 0 and sign == 1)
AcceptedAquifer(x, sign) == x # -1 /\ ~(x = 0 /\ sign = 1)

\* aquifer, goonfi_utils, humidifi, tessera_v
is_on_curve_aquifer(pubkey) == AcceptedAquifer(RecoveredX(pubkey), PointSign(pubkey))

\* return x != 0
AcceptedSaros(x) == x # -1 /\ x # 0

\* saros, zerofi
is_on_curve_saros(pubkey) == AcceptedSaros(RecoveredX(pubkey))

\* obric_v2 _recover_x: no test of y >= p, of v == 0 or of the second root.
recover_x_obric(y, sign) == FixSign(FixRoot(FirstRoot(CurveX2(y)), CurveX2(y)), sign)

\* (p - ((x*x + y*y - 1) % p)) % p == (d * x*x * y*y) % p
EquationObric(x, y) ==
    (ED25519_P - ((x * x + y * y - 1) % ED25519_P)) % ED25519_P
    = (((ED25519_D * ((x * x) % ED25519_P)) % ED25519_P) * ((y * y) % ED25519_P))
        % ED25519_P

\* obric_v2
is_on_curve_obric(point) ==
    /\ Len(point) = KeyLen
    /\ EquationObric(recover_x_obric(PointY(point), PointSign(point)), PointY(point))

is_on_curve(dec, pubkey) ==
    CASE dec = "obric_v2" -> is_on_curve_obric(pubkey)
      [] dec \in {"saros", "zerofi"} -> is_on_curve_saros(pubkey)
      [] OTHER -> is_on_curve_aquifer(pubkey)

\* ---------------------------------------------------------- PDA derivation

\* zerofi: if len(seeds_tuple) > 16
MaxSeedCount == 16

NoAddress == <<>>

Raised(kind, msg) == [err |-> kind, msg |-> msg, addr |-> NoAddress, bump |-> -1]
Returned(addr, bump) == [err |-> "none", msg |-> "", addr |-> addr, bump |-> bump]

\* The bytes hashed for a seed tuple (the bump byte being its last seed):
\* aquifer, goonfi_utils, humidifi, saros, tessera_v update the hasher with the
\* seeds, then the program id, then the marker.
preimage_aquifer(seeds, program_id) == Concat(seeds) \o program_id \o PDA_MARKER

\* obric_v2, zerofi start from the marker and append the seeds and the program id.
preimage_obric(seeds, program_id) == PDA_MARKER \o Concat(seeds) \o program_id

preimage(dec, seeds, program_id) ==
    IF dec \in {"obric_v2", "zerofi"} THEN preimage_obric(seeds, program_id)
    ELSE preimage_aquifer(seeds, program_id)

\* The digest create_program_address tests for a seed tuple.
pda_digest(dec, seeds, program_id) == sha256(preimage(dec, seeds, program_id))

\* if is_on_curve(digest): raise ValueError(...); return digest
off_curve_or_raise(dec, digest) ==
    IF is_on_curve(dec, digest) THEN Raised("ValueError", "on curve")
    ELSE Returned(digest, -1)

\* create_program_address: every failure is a ValueError.
create_program_address(dec, seeds, program_id) ==
    IF dec = "zerofi" /\ Len(seeds) > MaxSeedCount
        THEN Raised("ValueError", "Seeds count too large")
    ELSE IF \E i \in 1..Len(seeds) : Len(seeds[i]) > MaxSeedLen
        THEN Raised("ValueError", "seed too long")
    ELSE off_curve_or_raise(dec, pda_digest(dec, seeds, program_id))

\* return addr, bump  /  except ValueError: continue
with_bump(r, bump) == IF r.err = "none" THEN Returned(r.addr, bump) ELSE r

\* One pass of the loop body: try: addr = create_program_address(
\* seeds_tuple + (bytes([bump]),), program_id); return addr, bump
try_bump(dec, seeds, program_id, bump) ==
    with_bump(create_program_address(dec, Append(seeds, <<bump>>), program_id), bump)

\* The outcome of the loop body for every bump of the range.
bump_passes(dec, seeds, program_id, lo, hi) ==
    [b \in lo..hi |-> try_bump(dec, seeds, program_id, b)]

\* for bump in range(lo, hi + 1): the loop with the order reversed.
first_pass_ascending(pass, lo, hi) ==
    IF \A b \in lo..hi : pass[b].err # "none" THEN pass[hi]
    ELSE pass[CHOOSE b \in lo..hi :
                  pass[b].err = "none" /\ \A c \in lo..(b - 1) : pass[c].err # "none"]

bump_search_ascending(dec, seeds, program_id, lo, hi) ==
    first_pass_ascending(bump_passes(dec, seeds, program_id, lo, hi), lo, hi)

\* for bump in range(hi, lo - 1, -1): try ... except ValueError: continue
\* The i-th pass tries bump hi - i; the loop returns at the first pass that does
\* not raise, and when every pass raised the value is the last pass's error.
first_pass(pass, lo, hi) ==
    IF \A b \in lo..hi : pass[b].err # "none" THEN pass[lo]
    ELSE pass[hi - (CHOOSE i \in 0..(hi - lo) :
                  /\ pass[hi - i].err = "none"
                  /\ \A j \in 0..(i - 1) : pass[hi - j].err # "none")]

bump_search(dec, seeds, program_id, lo, hi) ==
    first_pass(bump_passes(dec, seeds, program_id, lo, hi), lo, hi)

\* raise RuntimeError(...) after the loop
or_no_valid_pda(r) == IF r.err = "none" THEN r ELSE Raised("RuntimeError", "no valid PDA")

\* find_program_address (aquifer: find_program_address_bytes)
find_program_address(dec, seeds, program_id) ==
    or_no_valid_pda(bump_search(dec, seeds, program_id, 0, MaxBump))

\* ------------------------------------------------------------------ state

VARIABLES
    seeds,        \* the seed list of the derivation request
    programId,    \* its program id
    pdaDec,       \* the decoder whose find_program_address was called
    pdaPc,        \* "idle" | "done"
    pdaResult,    \* what the call returned or raised
    key,          \* the key handed to the Base58 codec
    b58Dec,       \* the decoder whose codec is used
    b58Pc,        \* "idle" | "encoded" | "decoded"
    b58Text,      \* b58encode(key)
    b58Out,       \* b58decode(b58Text)
    sarosPool,    \* saros: the pool address given on the command line
    sarosRpc,     \* saros: what getAccountInfo answers for the pool and owners
    sarosPc,      \* saros: position in resolve_accounts
    sarosRaw,     \* saros: raw, the pool account data
    sarosState,   \* saros: pool_state, the parsed fields
    sarosOut,     \* saros: the error raised or the report returned
    aqRpc,        \* aquifer: the account data getAccountInfo answers with
    aqPc,         \* aquifer: position in resolve_accounts
    aqInstance,   \* aquifer: instance, the decoded dex_instance
    aqBase,       \* aquifer: base_coin, the decoded base coin account
    aqQuote,      \* aquifer: quote_coin, the decoded quote coin account
    aqOut,        \* aquifer: the error raised or the report returned
    zfRpc,        \* zerofi: what getAccountInfo answers for the pair and the mints
    zfUser,       \* zerofi: the user argument (<<>>: None)
    zfPc,         \* zerofi: position in resolve_accounts
    zfLayout,     \* zerofi: layout, the decoded pair
    zfMints,      \* zerofi: mint_meta and token_program
    zfOut,        \* zerofi: the error raised or the report returned
    gfRpc,        \* goonfi: what the RPC answers for the pool, the vaults and the mints
    gfUser,       \* goonfi: the user argument (<<>>: None)
    gfPc,         \* goonfi: position in main: parse_pool, print_human_summary
    gfPool,       \* goonfi: the fields parse_pool read from the pool data
    gfCore,       \* goonfi: the accounts resolved from the RPC lookups
    gfOut,        \* goonfi: the error raised or the result returned
    gfSummary,    \* goonfi: the lines print_human_summary printed
    fpReq,        \* bump loop: the decoder, the seeds and the program id of the call
    fpBump,       \* bump loop: bump, the loop variable
    fpTried,      \* bump loop: the bumps create_program_address was called with
    fpPc,         \* bump loop: "loop" | "returned" | "raised"
    fpOut,        \* bump loop: what the call returned or raised
    cvPoint,      \* curve test: the 32-byte value is_on_curve is called with
    cvDec,        \* curve test: the decoder whose is_on_curve was called
    cvOut,        \* curve test: what the call returned
    rtFields,     \* layout: the value given to each field of POOL_LAYOUT
    rtBuf,        \* layout: the buffer the values are written to
    rtPc,         \* layout: "start" | "written" | "decoded"
    rtOut,        \* layout: what parse_pool decoded from the buffer
    obData,       \* obric_v2: result, what build_swap_accounts returned
    obOrder,      \* obric_v2: the --order argument
    obPc,         \* obric_v2: "built" | "assembled"
    obOut,        \* obric_v2: accounts, the list assemble_accounts returned
    glProgramIdBytes, \* module state: the global PROGRAM_ID_BYTES of aquifer_decode
    glRaw,        \* module state: the buffer every call decodes
    glResults,    \* module state: what each call of decode_dex_instance gave
    txWorkers,    \* download pool: max_workers of the executor
    txFuture,     \* download pool: state of the future of each signature
    txSeen,       \* download pool: the futures as_completed has yielded
    txWritten,    \* download pool: the signatures with an output file
    txFailures,   \* download pool: the failures list
    txPc,         \* download pool: position of main
    rrEndpoints,  \* round robin: number of endpoints of the rotator
    rrIndex,      \* round robin: RpcRoundRobin._index
    rrCall,       \* round robin: the rpc_request call of each thread
    fsTotal,      \* fetch_signatures: the total asked for
    fsSignatures, \* fetch_signatures: the signatures list
    fsBefore,     \* fetch_signatures: the before cursor, 0 for None
    fsResult,     \* fetch_signatures: the returned list
    fsPc,         \* fetch_signatures: position of the call
    scInbound,    \* session crypto: SessionCrypto._inbound_seq
    scAccepted,   \* session crypto: the sequence numbers that advanced the counter
    scLast,       \* session crypto: the last call of decrypt_json
    acImpl,       \* account cache: which decoder's fetch runs
    acPending,    \* account cache: the keys still to request
    acAggregated, \* account cache: the keys and values collected, not yet stored
    acCache,      \* account cache: the cache, Absent for a key without an entry
    acAnswered,   \* account cache: what the responses held at each key's position
    acPc,         \* account cache: position of the fetch
    wsNextId,     \* titan client: _next_request_id
    wsPending,    \* titan client: _pending, the caller whose future an id holds, 0 for none
    wsCaller,     \* titan client: each caller of send_request and its future
    wsWs,         \* titan client: whether _ws is set
    wsLink,       \* titan client: whether the connection is up
    wsRecv,       \* titan client: the receive task
    sqSent,       \* quote stream: how many messages the server has sent
    sqInbox,      \* quote stream: messages received and not yet handled
    sqFuture,     \* quote stream: the future of the NewSwapQuoteStream request
    sqCaller,     \* quote stream: position of new_swap_quote_stream
    sqRegistered, \* quote stream: whether the stream id is in _stream_queues
    sqQueue,      \* quote stream: the stream's queue
    sqConsumed,   \* quote stream: what the owner has taken from the queue
    sqArrived     \* quote stream: the StreamData the receive loop has handled

pdaVars == <<seeds, programId, pdaDec, pdaPc, pdaResult>>
b58Vars == <<key, b58Dec, b58Pc, b58Text, b58Out>>
sarosVars == <<sarosPool, sarosRpc, sarosPc, sarosRaw, sarosState, sarosOut>>

aqVars == <<aqRpc, aqPc, aqInstance, aqBase, aqQuote, aqOut>>

zfVars == <<zfRpc, zfUser, zfPc, zfLayout, zfMints, zfOut>>
gfVars == <<gfRpc, gfUser, gfPc, gfPool, gfCore, gfOut, gfSummary>>
fpVars == <<fpReq, fpBump, fpTried, fpPc, fpOut>>
cvVars == <<cvPoint, cvDec, cvOut>>
rtVars == <<rtFields, rtBuf, rtPc, rtOut>>
obVars == <<obData, obOrder, obPc, obOut>>
glVars == <<glProgramIdBytes, glRaw, glResults>>
txVars == <<txWorkers, txFuture, txSeen, txWritten, txFailures, txPc>>
rrVars == <<rrEndpoints, rrIndex, rrCall>>
fsVars == <<fsTotal, fsSignatures, fsBefore, fsResult, fsPc>>
scVars == <<scInbound, scAccepted, scLast>>
acVars == <<acImpl, acPending, acAggregated, acCache, acAnswered, acPc>>
wsVars == <<wsNextId, wsPending, wsCaller, wsWs, wsLink, wsRecv>>
sqVars == <<sqSent, sqInbox, sqFuture, sqCaller, sqRegistered, sqQueue, sqConsumed, sqArrived>>

vars == <<pdaVars, b58Vars, sarosVars, aqVars, zfVars, gfVars, fpVars, cvVars, rtVars, obVars, glVars, txVars, rrVars, fsVars, scVars, acVars, wsVars, sqVars>>

\* ------------------------------------------- specification: PDA derivation

\* The seeds a request is built from: empty, short, full-length, and one that
\* is longer than MaxSeedLen.
SeedPool ==
    { <<>>, <<1>>, <<255>>, <<0, 0>>, <<255, 255>>, <<1, 2, 3>> }

RECURSIVE SeqsUpTo(_, _)
SeqsUpTo(S, n) ==
    IF n = 0 THEN { <<>> }
    ELSE LET shorter == SeqsUpTo(S, n - 1) IN
         shorter \cup { Append(q, x) : q \in { t \in shorter : Len(t) = n - 1 }, x \in S }

SeedLists == SeqsUpTo(SeedPool, MaxSeeds)

\* Requests around the seed count create_program_address accepts: one seed
\* fewer than MaxSeedCount, exactly MaxSeedCount, and one more.
LongSeedLists == { Repeat(<<1>>, n) : n \in (MaxSeedCount - 1)..(MaxSeedCount + 1) }

\* Program ids of the model (KeyLen bytes each).
ProgramIds == { <<170, 85>>, <<6, 221>> }

PdaIdle ==
    /\ seeds = <<>>
    /\ programId = <<0, 0>>
    /\ pdaDec = "none"
    /\ pdaPc = "idle"
    /\ pdaResult = Raised("none", "")

PdaInit ==
    /\ seeds \in SeedLists \cup LongSeedLists
    /\ programId \in ProgramIds
    /\ pdaDec = "none"
    /\ pdaPc = "idle"
    /\ pdaResult = Raised("none", "")

\* A call of find_program_address of decoder dec on the request.
FindProgramAddress(dec) ==
    /\ pdaPc = "idle"
    /\ pdaDec' = dec
    /\ pdaResult' = find_program_address(dec, seeds, programId)
    /\ pdaPc' = "done"
    /\ UNCHANGED <<seeds, programId>>

PdaNext == \E dec \in Decoders : FindProgramAddress(dec)

\* ------------------------------------------------- specification: Base58

\* The byte values keys are built from: zero, the values around the alphabet
\* size, and the largest byte.
ByteSamples == {0, 1, 57, 58, 255}

RECURSIVE SeqsOfLen(_, _)
SeqsOfLen(S, n) ==
    IF n = 0 THEN { <<>> }
    ELSE { Append(q, x) : q \in SeqsOfLen(S, n - 1), x \in S }

\* Every buffer of KeyLen bytes over the sample values.
Keys == SeqsOfLen(ByteSamples, KeyLen)

B58Idle ==
    /\ key = <<>>
    /\ b58Dec = "none"
    /\ b58Pc = "idle"
    /\ b58Text = <<>>
    /\ b58Out = <<>>

B58Init ==
    /\ key \in Keys
    /\ b58Dec = "none"
    /\ b58Pc = "idle"
    /\ b58Text = <<>>
    /\ b58Out = <<>>

\* b58encode of decoder dec on the key.
Encode(dec) ==
    /\ b58Pc = "idle"
    /\ b58Dec' = dec
    /\ b58Text' = b58encode(dec, key)
    /\ b58Pc' = "encoded"
    /\ UNCHANGED <<key, b58Out>>

\* b58decode of the same decoder on the text.
Decode ==
    /\ b58Pc = "encoded"
    /\ b58Out' = b58decode(b58Dec, b58Text)
    /\ b58Pc' = "decoded"
    /\ UNCHANGED <<key, b58Dec, b58Text>>

B58Next == (\E dec \in Decoders : Encode(dec)) \/ Decode

\* ------------------------------------------- specification: saros decoder

\* The width of a u64 field.
U64Len == 8

\* POOL_LAYOUT: the eight header bytes, seven keys of KeyLen bytes each, then
\* the u64 fields at the distances the source has between them.
POOL_LAYOUT ==
    [ version |-> 0,
      is_initialized |-> 1,
      bump_seed |-> 2,
      token_program |-> 8,
      token_a |-> 8 + KeyLen,
      token_b |-> 8 + 2 * KeyLen,
      pool_mint |-> 8 + 3 * KeyLen,
      fee_account |-> 8 + 4 * KeyLen,
      token_a_mint |-> 8 + 5 * KeyLen,
      token_b_mint |-> 8 + 6 * KeyLen,
      token_a_deposit |-> 8 + 7 * KeyLen,
      token_b_deposit |-> 8 + 7 * KeyLen + 8,
      token_a_fees |-> 8 + 7 * KeyLen + 16,
      token_b_fees |-> 8 + 7 * KeyLen + 24,
      fees |-> 8 + 7 * KeyLen + 32,
      curve_type |-> 8 + 7 * KeyLen + 72,
      curve_parameters |-> 8 + 7 * KeyLen + 80 ]

FEE_FIELD_NAMES ==
    << "trade_fee_numerator", "trade_fee_denominator",
       "owner_trade_fee_numerator", "owner_trade_fee_denominator",
       "owner_withdraw_fee_numerator", "owner_withdraw_fee_denominator",
       "host_fee_numerator", "host_fee_denominator" >>

\* enumerate(FEE_FIELD_NAMES): the idx of a name
FeeIndex(name) == CHOOSE idx \in 0..(Len(FEE_FIELD_NAMES) - 1) : FEE_FIELD_NAMES[idx + 1] = name

Min(a, b) == IF a <= b THEN a ELSE b

\* raw[lo:hi] for 0 <= lo <= hi: the slice stops at the end of raw.
PySlice(raw, lo, hi) == SubSeq(raw, Min(lo, Len(raw)) + 1, Min(hi, Len(raw)))

\* saros read_pubkey: b58encode(raw[offset : offset + 32])
saros_read_pubkey(raw, offset) == b58encode("saros", PySlice(raw, offset, offset + KeyLen))

\* saros read_u64: int.from_bytes(raw[offset : offset + 8], "little")
saros_read_u64(raw, offset) == FromBytesLE(PySlice(raw, offset, offset + U64Len))

\* The loop over FEE_FIELD_NAMES: offset = POOL_LAYOUT["fees"] + idx * 8
saros_read_fees(raw) ==
    [ name \in { FEE_FIELD_NAMES[i] : i \in 1..Len(FEE_FIELD_NAMES) } |->
        saros_read_u64(raw, POOL_LAYOUT.fees + FeeIndex(name) * U64Len) ]

\* pool_state before parse_pool has run.
NoPoolState == [ parsed |-> FALSE ]

\* parse_pool: raw[i] raises IndexError at an index past the end, the slices
\* of read_pubkey and read_u64 do not.
saros_parse_pool(raw) ==
    IF Len(raw) <= POOL_LAYOUT.curve_type THEN [ parsed |-> FALSE ]
    ELSE [ parsed |-> TRUE,
           version |-> raw[POOL_LAYOUT.version + 1],
           is_initialized |-> (raw[POOL_LAYOUT.is_initialized + 1] = 1),
           bump_seed |-> raw[POOL_LAYOUT.bump_seed + 1],
           token_program |-> saros_read_pubkey(raw, POOL_LAYOUT.token_program),
           token_a |-> saros_read_pubkey(raw, POOL_LAYOUT.token_a),
           token_b |-> saros_read_pubkey(raw, POOL_LAYOUT.token_b),
           pool_mint |-> saros_read_pubkey(raw, POOL_LAYOUT.pool_mint),
           fee_account |-> saros_read_pubkey(raw, POOL_LAYOUT.fee_account),
           token_a_mint |-> saros_read_pubkey(raw, POOL_LAYOUT.token_a_mint),
           token_b_mint |-> saros_read_pubkey(raw, POOL_LAYOUT.token_b_mint),
           token_a_deposit |-> saros_read_u64(raw, POOL_LAYOUT.token_a_deposit),
           token_b_deposit |-> saros_read_u64(raw, POOL_LAYOUT.token_b_deposit),
           token_a_fees |-> saros_read_u64(raw, POOL_LAYOUT.token_a_fees),
           token_b_fees |-> saros_read_u64(raw, POOL_LAYOUT.token_b_fees),
           curve_type |-> raw[POOL_LAYOUT.curve_type + 1],
           fees |-> saros_read_fees(raw) ]

\* The leading bytes of SAROS_PROGRAM_ID, TOKEN_PROGRAM_V1, TOKEN_PROGRAM_2022.
SAROS_PROGRAM_ID == b58encode("saros", <<6, 132>>)
TOKEN_PROGRAM_V1 == b58encode("saros", <<6, 221>>)
TOKEN_PROGRAM_2022 == b58encode("saros", <<1, 142>>)

\* The pool address of the model.
SarosPoolKey == <<17, 34>>

\* saros find_program_address((b58decode(pool),), b58decode(SAROS_PROGRAM_ID))
saros_authority(pool) ==
    find_program_address("saros", << b58decode("saros", pool) >>,
                         b58decode("saros", SAROS_PROGRAM_ID))

\* A little-endian u64 with one significant byte.
U64Bytes(n) == <<n>> \o Zeros(U64Len - 1)

\* A pool account as the program writes it: header, keys, deposits and fees,
\* the eight fee fields, and the curve parameters behind them.
SarosAccount(version, initialized, bump) ==
    << version, initialized, bump, 0, 0, 0, 0, 0 >>
    \o <<6, 221>> \o <<11, 1>> \o <<12, 2>> \o <<13, 3>> \o <<14, 4>> \o <<15, 5>> \o <<16, 6>>
    \o U64Bytes(100) \o U64Bytes(200) \o U64Bytes(3) \o U64Bytes(4)
    \o U64Bytes(25) \o U64Bytes(250) \o U64Bytes(5) \o U64Bytes(251)
    \o U64Bytes(0) \o U64Bytes(1) \o U64Bytes(20) \o U64Bytes(252)
    \o U64Bytes(7)

\* The accounts getAccountInfo may hold for the pool: a well-formed one, one
\* with another bump, one of another version, one not initialized.
SarosAccounts ==
    { SarosAccount(1, 1, saros_authority(b58encode("saros", SarosPoolKey)).bump),
      SarosAccount(1, 1, (saros_authority(b58encode("saros", SarosPoolKey)).bump + 1) % 256),
      SarosAccount(2, 1, saros_authority(b58encode("saros", SarosPoolKey)).bump),
      SarosAccount(1, 0, saros_authority(b58encode("saros", SarosPoolKey)).bump) }

\* The owners getAccountInfo reports for token_a, token_b and the two mints; an
\* empty owner is an account the RPC does not have.
SarosOwners ==
    { [a |-> TOKEN_PROGRAM_V1, b |-> TOKEN_PROGRAM_V1,
       mint_a |-> TOKEN_PROGRAM_V1, mint_b |-> TOKEN_PROGRAM_V1],
      [a |-> TOKEN_PROGRAM_V1, b |-> TOKEN_PROGRAM_2022,
       mint_a |-> TOKEN_PROGRAM_V1, mint_b |-> TOKEN_PROGRAM_V1],
      [a |-> TOKEN_PROGRAM_2022, b |-> TOKEN_PROGRAM_2022,
       mint_a |-> TOKEN_PROGRAM_2022, mint_b |-> TOKEN_PROGRAM_V1],
      [a |-> TOKEN_PROGRAM_2022, b |-> TOKEN_PROGRAM_2022,
       mint_a |-> <<>>, mint_b |-> TOKEN_PROGRAM_2022] }

\* Every account data the RPC may answer with: a pool account cut at any length.
SarosData == { SubSeq(acc, 1, n) : acc \in SarosAccounts, n \in 0..(POOL_LAYOUT.fees + 9 * U64Len) }

NoReport == [ err |-> "none", msg |-> "", authority |-> <<>>, accounts |-> <<>> ]
SarosRaised(kind, msg) == [ err |-> kind, msg |-> msg, authority |-> <<>>, accounts |-> <<>> ]

SarosIdle ==
    /\ sarosPool = <<>>
    /\ sarosRpc = [ present |-> FALSE, data |-> <<>> ]
    /\ sarosPc = "idle"
    /\ sarosRaw = <<>>
    /\ sarosState = NoPoolState
    /\ sarosOut = NoReport

SarosInit ==
    /\ sarosPool = b58encode("saros", SarosPoolKey)
    /\ \/ sarosRpc = [ present |-> FALSE, data |-> <<>> ]
       \/ \E data \in SarosData, owners \in SarosOwners :
              sarosRpc = [ present |-> TRUE, data |-> data, owners |-> owners ]
    /\ sarosPc = "start"
    /\ sarosRaw = <<>>
    /\ sarosState = NoPoolState
    /\ sarosOut = NoReport

\* raise: resolve_accounts ends with the error.
SarosFail(kind, msg) ==
    /\ sarosPc' = "failed"
    /\ sarosOut' = SarosRaised(kind, msg)

\* fetch_pool_state
SarosFetchPoolState ==
    /\ sarosPc = "start"
    /\ IF ~sarosRpc.present
           THEN SarosFail("RpcError", "pool missing") /\ UNCHANGED sarosRaw
       ELSE IF Len(sarosRpc.data) < POOL_LAYOUT.curve_parameters
           THEN SarosFail("RpcError", "data length") /\ UNCHANGED sarosRaw
       ELSE sarosRaw' = sarosRpc.data /\ sarosPc' = "fetched" /\ UNCHANGED sarosOut
    /\ UNCHANGED <<sarosPool, sarosRpc, sarosState>>

\* pool_state = parse_pool(raw)
SarosParsePool ==
    /\ sarosPc = "fetched"
    /\ sarosState' = saros_parse_pool(sarosRaw)
    /\ IF Len(sarosRaw) <= POOL_LAYOUT.curve_type
           THEN SarosFail("IndexError", "index out of range")
       ELSE sarosPc' = "parsed" /\ UNCHANGED sarosOut
    /\ UNCHANGED <<sarosPool, sarosRpc, sarosRaw>>

\* The version / is_initialized test and the comparison of the derived bump
\* with pool_state["bump_seed"].
saros_check(state, derived) ==
    IF state.version # 1 \/ ~state.is_initialized
        THEN SarosFail("RpcError", "not initialized or version mismatch")
    ELSE IF derived.err # "none" THEN SarosFail(derived.err, derived.msg)
    ELSE IF derived.bump # state.bump_seed THEN SarosFail("RpcError", "PDA bump mismatch")
    ELSE /\ sarosPc' = "checked"
         /\ sarosOut' = [ NoReport EXCEPT !.authority = b58encode("saros", derived.addr) ]

SarosCheckPool ==
    /\ sarosPc = "parsed"
    /\ saros_check(sarosState, saros_authority(sarosPool))
    /\ UNCHANGED <<sarosPool, sarosRpc, sarosRaw, sarosState>>

\* The ten accounts of the swap, without a user: user=None.
saros_accounts(pool, authority, state, token_program, direction) ==
    << <<"swap_state", pool>>,
       <<"authority", authority>>,
       <<"user_transfer_authority", <<"<user-transfer-authority>">> >>,
       <<"user_source", IF direction = "a2b" THEN <<"<user_token_a>">> ELSE <<"<user_token_b>">> >>,
       <<"pool_source", IF direction = "a2b" THEN state.token_a ELSE state.token_b>>,
       <<"pool_destination", IF direction = "a2b" THEN state.token_b ELSE state.token_a>>,
       <<"user_destination", IF direction = "a2b" THEN <<"<user_token_b>">> ELSE <<"<user_token_a>">> >>,
       <<"pool_mint", state.pool_mint>>,
       <<"fee_account", state.fee_account>>,
       <<"token_program", token_program>> >>

\* The owner lookups and comparisons, and the account list.
saros_resolve(owners, direction) ==
    IF owners.a = <<>> \/ owners.b = <<>> THEN SarosFail("RpcError", "token account missing")
    ELSE IF owners.a # owners.b THEN SarosFail("RpcError", "token_a/token_b owners differ")
    ELSE IF owners.mint_a = <<>> \/ owners.mint_b = <<>> THEN SarosFail("RpcError", "mint missing")
    ELSE IF owners.mint_a # owners.a \/ owners.mint_b # owners.a
        THEN SarosFail("RpcError", "mint owner differs from vault owner")
    ELSE /\ sarosPc' = "resolved"
         /\ sarosOut' = [ sarosOut EXCEPT !.accounts =
                saros_accounts(sarosPool, sarosOut.authority, sarosState, owners.a, direction) ]

SarosResolveOwners ==
    /\ sarosPc = "checked"
    /\ \E direction \in {"a2b", "b2a"} : saros_resolve(sarosRpc.owners, direction)
    /\ UNCHANGED <<sarosPool, sarosRpc, sarosRaw, sarosState>>

\* ----------------------------------------- specification: aquifer decoder

\* The 8-byte unit in front of the coin fields, one byte in the model.
AqUnit == 1

\* The offsets decode_dex_instance reads: two keys, twelve bytes of small
\* fields, five keys (0x00, 0x20, 0x41..0x43, 0x4C, 0x6C, 0x8C, 0xAC, 0xCC).
INSTANCE_LAYOUT ==
    [ stored_dex |-> 0,
      dex_owner |-> KeyLen,
      instance_id |-> 2 * KeyLen + 1,
      base_coin_bump |-> 2 * KeyLen + 2,
      quote_coin_bump |-> 2 * KeyLen + 3,
      base_coin |-> 2 * KeyLen + 12,
      quote_coin |-> 3 * KeyLen + 12,
      base_oracle |-> 4 * KeyLen + 12,
      quote_oracle |-> 5 * KeyLen + 12,
      mm_account |-> 6 * KeyLen + 12 ]

\* The offsets decode_coin_account reads (0x08, 0x28, 0x48, 0x68, 0x88, 0xA8)
\* and the length it requires (0xB0).
COIN_LAYOUT ==
    [ dex_instance |-> AqUnit,
      mint |-> AqUnit + KeyLen,
      vault |-> AqUnit + 2 * KeyLen,
      oracle |-> AqUnit + 3 * KeyLen,
      risk |-> AqUnit + 4 * KeyLen,
      decimals |-> AqUnit + 5 * KeyLen,
      length |-> AqUnit + 5 * KeyLen + AqUnit ]

\* The seed literals b"dex", b"coin", b"coin_managed_ta", cut to MaxSeedLen.
SEED_DEX == <<100>>
SEED_COIN == <<99>>
SEED_COIN_MANAGED_TA == <<99, 109>>

\* PROGRAM_ID and PROGRAM_ID_BYTES = b58decode(PROGRAM_ID), set in main.
AQUIFER_PROGRAM_ID == b58encode("aquifer", <<139, 188>>)
PROGRAM_ID_BYTES == b58decode("aquifer", AQUIFER_PROGRAM_ID)

AqRaised(kind, msg) == [ err |-> kind, msg |-> msg ]

\* aquifer read_pubkey after the callers' length checks: the segment.
aq_read_pubkey(data, offset) == PySlice(data, offset, offset + KeyLen)

\* decode_dex_instance behind the PDA derivation: the comparison with
\* stored_dex and the returned dict.
aq_instance_fields(raw, derived) ==
    IF derived.err # "none" THEN AqRaised(derived.err, derived.msg)
    ELSE IF derived.addr # aq_read_pubkey(raw, INSTANCE_LAYOUT.stored_dex)
        THEN AqRaised("ValueError", "dex PDA check failed")
    ELSE [ err |-> "none", msg |-> "",
           dex_owner |-> b58encode("aquifer", aq_read_pubkey(raw, INSTANCE_LAYOUT.dex_owner)),
           dex |-> b58encode("aquifer", derived.addr),
           dex_bump |-> derived.bump,
           instance_id |-> raw[INSTANCE_LAYOUT.instance_id + 1],
           base_coin |-> b58encode("aquifer", aq_read_pubkey(raw, INSTANCE_LAYOUT.base_coin)),
           quote_coin |-> b58encode("aquifer", aq_read_pubkey(raw, INSTANCE_LAYOUT.quote_coin)),
           base_oracle |-> b58encode("aquifer", aq_read_pubkey(raw, INSTANCE_LAYOUT.base_oracle)),
           quote_oracle |-> b58encode("aquifer", aq_read_pubkey(raw, INSTANCE_LAYOUT.quote_oracle)),
           mm_account |-> b58encode("aquifer", aq_read_pubkey(raw, INSTANCE_LAYOUT.mm_account)),
           base_coin_bump |-> raw[INSTANCE_LAYOUT.base_coin_bump + 1],
           quote_coin_bump |-> raw[INSTANCE_LAYOUT.quote_coin_bump + 1],
           dex_instance_bytes |-> PySlice(raw, INSTANCE_LAYOUT.dex_owner, INSTANCE_LAYOUT.dex_owner + KeyLen),
           dex_bytes |-> aq_read_pubkey(raw, INSTANCE_LAYOUT.stored_dex) ]

decode_dex_instance(raw) ==
    IF Len(raw) < INSTANCE_LAYOUT.mm_account + KeyLen
        THEN AqRaised("ValueError", "dex_instance data too short")
    ELSE aq_instance_fields(raw,
             find_program_address("aquifer",
                 << SEED_DEX, aq_read_pubkey(raw, INSTANCE_LAYOUT.dex_owner) >>,
                 PROGRAM_ID_BYTES))

\* decode_coin_account behind both derivations: the comparison of the vault
\* and the returned dict.
aq_coin_fields(raw, coin_bump, vault_expected) ==
    IF vault_expected.err # "none" THEN AqRaised(vault_expected.err, vault_expected.msg)
    ELSE IF vault_expected.addr # aq_read_pubkey(raw, COIN_LAYOUT.vault)
        THEN AqRaised("ValueError", "coin_managed_ta PDA check failed")
    ELSE [ err |-> "none", msg |-> "",
           mint |-> b58encode("aquifer", aq_read_pubkey(raw, COIN_LAYOUT.mint)),
           vault |-> b58encode("aquifer", aq_read_pubkey(raw, COIN_LAYOUT.vault)),
           oracle |-> b58encode("aquifer", aq_read_pubkey(raw, COIN_LAYOUT.oracle)),
           risk |-> b58encode("aquifer", aq_read_pubkey(raw, COIN_LAYOUT.risk)),
           coin_bump |-> coin_bump,
           managed_ta_bump |-> vault_expected.bump,
           decimals_flag |-> raw[COIN_LAYOUT.decimals + 1] ]

\* The comparison of the derived coin address with b58decode(coin_address).
aq_coin_pda_check(raw, coin_addr_bytes, derived_coin) ==
    IF derived_coin.err # "none" THEN AqRaised(derived_coin.err, derived_coin.msg)
    ELSE IF derived_coin.addr # coin_addr_bytes
        THEN AqRaised("ValueError", "coin PDA check failed")
    ELSE aq_coin_fields(raw, derived_coin.bump,
             find_program_address("aquifer", << SEED_COIN_MANAGED_TA, coin_addr_bytes >>,
                                  PROGRAM_ID_BYTES))

decode_coin_account(raw, coin_address, dex_instance_bytes, dex_bytes) ==
    IF Len(raw) < COIN_LAYOUT.length THEN AqRaised("ValueError", "coin data too short")
    ELSE IF PySlice(raw, COIN_LAYOUT.dex_instance, COIN_LAYOUT.dex_instance + KeyLen)
                # dex_instance_bytes
        THEN AqRaised("ValueError", "coin bound to another dex_instance")
    ELSE aq_coin_pda_check(raw, b58decode("aquifer", coin_address),
             find_program_address("aquifer",
                 << SEED_COIN, dex_bytes, aq_read_pubkey(raw, COIN_LAYOUT.mint) >>,
                 PROGRAM_ID_BYTES))

\* decode_token_account: the length it requires (165) and the offsets it
\* reads (0x00, 0x20, 0x40).
TOKEN_ACCOUNT_LAYOUT ==
    [ mint |-> 0, owner |-> KeyLen, amount |-> 2 * KeyLen, length |-> 2 * KeyLen + 101 ]

decode_token_account(raw) ==
    IF Len(raw) < TOKEN_ACCOUNT_LAYOUT.length
        THEN AqRaised("ValueError", "token account data too short")
    ELSE [ err |-> "none", msg |-> "",
           mint |-> b58encode("aquifer", aq_read_pubkey(raw, TOKEN_ACCOUNT_LAYOUT.mint)),
           owner |-> b58encode("aquifer", aq_read_pubkey(raw, TOKEN_ACCOUNT_LAYOUT.owner)),
           amount |-> FromBytesLE(PySlice(raw, TOKEN_ACCOUNT_LAYOUT.amount,
                                          TOKEN_ACCOUNT_LAYOUT.amount + U64Len)) ]

SYSVAR_INSTRUCTIONS == b58encode("aquifer", <<6, 167>>)
AQUIFER_TOKEN_PROGRAM_2022 == b58encode("aquifer", <<6, 222>>)

\* The accounts of the model's chain: the dex of an owner, the coins of two
\* mints and their vaults, each at the address the program derives for it.
AqDexOwner == <<21, 7>>
AqMint(side) == IF side = "base" THEN <<31, 1>> ELSE <<32, 2>>

\* The PDAs of a consistent set of accounts, each derived as the decoders
\* derive it.
AqDex == find_program_address("aquifer", << SEED_DEX, AqDexOwner >>, <<139, 188>>)
AqCoin(dex, side) ==
    find_program_address("aquifer", << SEED_COIN, dex.addr, AqMint(side) >>, <<139, 188>>)
AqVault(coin) ==
    find_program_address("aquifer", << SEED_COIN_MANAGED_TA, coin.addr >>, <<139, 188>>)

\* The dex_instance address given on the command line.
AqInstanceKey == <<41, 9>>
AqInstanceAddress == b58encode("aquifer", AqInstanceKey)

\* The dex_instance account: instance id 1, the bumps of the two coins.
AqInstanceData(dex, base_coin, quote_coin) ==
    dex.addr \o AqDexOwner
    \o << 0, 1, base_coin.bump, quote_coin.bump, 0, 0, 0, 0, 0, 0, 0, 0 >>
    \o base_coin.addr \o quote_coin.addr
    \o <<51, 1>> \o <<52, 2>> \o <<61, 3>>

\* What a coin account may hold as its dex_instance: the bytes resolve_accounts
\* compares with, or the address of the dex_instance account.
AqBackPointer(kind, instance) ==
    IF kind = "slice" THEN PySlice(instance, AqUnit, AqUnit + KeyLen)
    ELSE AqInstanceKey

AqCoinData(side, back_pointer, vault) ==
    <<7>> \o back_pointer \o AqMint(side) \o vault.addr
    \o (IF side = "base" THEN <<51, 1>> ELSE <<52, 2>>) \o <<71, 4>> \o <<6>>

\* An SPL token account of a mint, held by an authority.
AqTokenAccount(mint, authority) ==
    mint \o authority \o U64Bytes(9) \o Zeros(TOKEN_ACCOUNT_LAYOUT.length - 2 * KeyLen - U64Len)

\* What the RPC has besides the three program accounts: the owners of the two
\* mints (empty: no such account) and the two vault token accounts.
AqTokenSide ==
    { [ mint_owner |-> TOKEN_PROGRAM_V1, vault_owner |-> TOKEN_PROGRAM_V1,
        vault |-> AqTokenAccount(AqMint("base"), <<81, 5>>) ],
      [ mint_owner |-> AQUIFER_TOKEN_PROGRAM_2022, vault_owner |-> AQUIFER_TOKEN_PROGRAM_2022,
        vault |-> AqTokenAccount(AqMint("base"), <<81, 5>>) ],
      [ mint_owner |-> <<>>, vault_owner |-> TOKEN_PROGRAM_V1,
        vault |-> AqTokenAccount(AqMint("base"), <<81, 5>>) ],
      [ mint_owner |-> TOKEN_PROGRAM_V1, vault_owner |-> AQUIFER_PROGRAM_ID,
        vault |-> AqTokenAccount(AqMint("base"), <<81, 5>>) ],
      [ mint_owner |-> TOKEN_PROGRAM_V1, vault_owner |-> TOKEN_PROGRAM_V1,
        vault |-> AqTokenAccount(AqMint("quote"), <<81, 5>>) ],
      [ mint_owner |-> TOKEN_PROGRAM_V1, vault_owner |-> TOKEN_PROGRAM_V1,
        vault |-> SubSeq(AqTokenAccount(AqMint("base"), <<81, 5>>), 1,
                         TOKEN_ACCOUNT_LAYOUT.length - 1) ] }

\* The accounts the RPC answers with: the dex_instance, the two coins at
\* their addresses, the mints and the vaults.
AqWorld(instance, back_pointer, base_coin, quote_coin, base_vault, quote_vault, base) ==
    [ instance |-> instance,
      base_coin_address |-> b58encode("aquifer", base_coin.addr),
      base_coin |-> AqCoinData("base", back_pointer, base_vault),
      quote_coin_address |-> b58encode("aquifer", quote_coin.addr),
      quote_coin |-> AqCoinData("quote", back_pointer, quote_vault),
      base |-> base,
      quote |-> [ mint_owner |-> TOKEN_PROGRAM_V1, vault_owner |-> TOKEN_PROGRAM_V1,
                  vault |-> AqTokenAccount(AqMint("quote"), <<82, 6>>) ] ]

\* One byte of an account changed, or its last byte missing.
AqPatch(data, off) == [ data EXCEPT ![off + 1] = (@ + 1) % 256 ]
AqCut(data) == SubSeq(data, 1, Len(data) - 1)

AqPatched(world) ==
    {world}
    \cup { [world EXCEPT !.instance = AqPatch(@, off)] : off \in 0..(Len(world.instance) - 1) }
    \cup { [world EXCEPT !.base_coin = AqPatch(@, off)] : off \in 0..(Len(world.base_coin) - 1) }
    \cup { [world EXCEPT !.quote_coin = AqPatch(@, off)] : off \in 0..(Len(world.quote_coin) - 1) }
    \cup { [world EXCEPT !.instance = AqCut(@)], [world EXCEPT !.base_coin = AqCut(@)],
           [world EXCEPT !.quote_coin = AqCut(@)], [world EXCEPT !.instance = <<>>] }

NoDecode == [ err |-> "none", msg |-> "not decoded" ]

AqIdle ==
    /\ aqRpc = [ instance |-> <<>> ]
    /\ aqPc = "idle"
    /\ aqInstance = NoDecode
    /\ aqBase = NoDecode
    /\ aqQuote = NoDecode
    /\ aqOut = [ err |-> "none", msg |-> "", accounts |-> <<>> ]

AqInit ==
    /\ \E kind \in {"slice", "address"}, base \in AqTokenSide, dex \in {AqDex} :
         \E base_coin \in {AqCoin(dex, "base")}, quote_coin \in {AqCoin(dex, "quote")} :
           \E base_vault \in {AqVault(base_coin)}, quote_vault \in {AqVault(quote_coin)},
              instance \in {AqInstanceData(dex, base_coin, quote_coin)} :
             aqRpc \in AqPatched(AqWorld(instance, AqBackPointer(kind, instance), base_coin,
                                         quote_coin, base_vault, quote_vault, base))
    /\ aqPc = "start"
    /\ aqInstance = NoDecode
    /\ aqBase = NoDecode
    /\ aqQuote = NoDecode
    /\ aqOut = [ err |-> "none", msg |-> "", accounts |-> <<>> ]

\* raise: resolve_accounts ends with the error.
AqFail(kind, msg) ==
    /\ aqPc' = "failed"
    /\ aqOut' = [ err |-> kind, msg |-> msg, accounts |-> <<>> ]

\* fetch_account_record: the data of the account at an address, for the
\* addresses the RPC has an account at.
aq_fetch(rpc, address) ==
    CASE address = AqInstanceAddress -> [ present |-> TRUE, data |-> rpc.instance ]
      [] address = rpc.base_coin_address -> [ present |-> TRUE, data |-> rpc.base_coin ]
      [] address = rpc.quote_coin_address -> [ present |-> TRUE, data |-> rpc.quote_coin ]
      [] OTHER -> [ present |-> FALSE, data |-> <<>> ]

\* instance = decode_dex_instance(instance_raw)
AqDecodeInstance ==
    /\ aqPc = "start"
    /\ aqInstance' = decode_dex_instance(aq_fetch(aqRpc, AqInstanceAddress).data)
    /\ IF aqInstance'.err # "none" THEN AqFail(aqInstance'.err, aqInstance'.msg)
       ELSE aqPc' = "instance" /\ UNCHANGED aqOut
    /\ UNCHANGED <<aqRpc, aqBase, aqQuote>>

\* decode_coin_account(coin_raw, coin_address=..., dex_instance_bytes=
\* instance_raw[0x08:0x28], dex_bytes=b58decode(instance["dex"])) on the
\* record fetched at the coin address.
aq_decode_coin(rpc, coin_address, dex) ==
    IF ~aq_fetch(rpc, coin_address).present THEN AqRaised("RpcError", "account data empty")
    ELSE decode_coin_account(aq_fetch(rpc, coin_address).data, coin_address,
             PySlice(rpc.instance, AqUnit, AqUnit + KeyLen), b58decode("aquifer", dex))

AqDecodeBaseCoin ==
    /\ aqPc = "instance"
    /\ aqBase' = aq_decode_coin(aqRpc, aqInstance.base_coin, aqInstance.dex)
    /\ IF aqBase'.err # "none" THEN AqFail(aqBase'.err, aqBase'.msg)
       ELSE aqPc' = "base" /\ UNCHANGED aqOut
    /\ UNCHANGED <<aqRpc, aqInstance, aqQuote>>

AqDecodeQuoteCoin ==
    /\ aqPc = "base"
    /\ aqQuote' = aq_decode_coin(aqRpc, aqInstance.quote_coin, aqInstance.dex)
    /\ IF aqQuote'.err # "none" THEN AqFail(aqQuote'.err, aqQuote'.msg)
       ELSE aqPc' = "quote" /\ UNCHANGED aqOut
    /\ UNCHANGED <<aqRpc, aqInstance, aqBase>>

\* account_list, without a user: user=None.
aq_account_list(instance, base, quote, rpc, base_vault, quote_vault) ==
    << <<"sysvar_instructions", SYSVAR_INSTRUCTIONS>>,
       <<"user_authority", <<"<user-authority>">> >>,
       <<"token_program_base", rpc.base.mint_owner>>,
       <<"mm_account", instance.mm_account>>,
       <<"base_mint", base.mint>>,
       <<"token_program_quote", rpc.quote.mint_owner>>,
       <<"base_coin", instance.base_coin>>,
       <<"quote_mint", quote.mint>>,
       <<"dex", instance.dex>>,
       <<"dex_instance", AqInstanceAddress>>,
       <<"base_oracle", instance.base_oracle>>,
       <<"quote_oracle", instance.quote_oracle>>,
       <<"base_vault_authority", base_vault.owner>>,
       <<"base_vault_token_account", base.vault>>,
       <<"quote_vault_authority", quote_vault.owner>>,
       <<"quote_vault_token_account", quote.vault>> >>

\* The mint and vault lookups and their checks, then the report.
aq_resolve_vaults(instance, base, quote, rpc, base_vault, quote_vault) ==
    IF rpc.base.mint_owner = <<>> \/ rpc.quote.mint_owner = <<>>
        THEN AqFail("RpcError", "mint does not exist")
    ELSE IF rpc.base.vault_owner \notin {TOKEN_PROGRAM_V1, AQUIFER_TOKEN_PROGRAM_2022}
        THEN AqFail("RpcError", "base vault owner is not an SPL Token program")
    ELSE IF rpc.quote.vault_owner \notin {TOKEN_PROGRAM_V1, AQUIFER_TOKEN_PROGRAM_2022}
        THEN AqFail("RpcError", "quote vault owner is not an SPL Token program")
    ELSE IF base_vault.err # "none" THEN AqFail(base_vault.err, base_vault.msg)
    ELSE IF quote_vault.err # "none" THEN AqFail(quote_vault.err, quote_vault.msg)
    ELSE IF base_vault.mint # base.mint THEN AqFail("RpcError", "base vault mint mismatch")
    ELSE IF quote_vault.mint # quote.mint THEN AqFail("RpcError", "quote vault mint mismatch")
    ELSE /\ aqPc' = "resolved"
         /\ aqOut' = [ err |-> "none", msg |-> "",
                       accounts |-> aq_account_list(instance, base, quote, rpc,
                                                    base_vault, quote_vault) ]

AqResolveVaults ==
    /\ aqPc = "quote"
    /\ aq_resolve_vaults(aqInstance, aqBase, aqQuote, aqRpc,
                         decode_token_account(aqRpc.base.vault),
                         decode_token_account(aqRpc.quote.vault))
    /\ UNCHANGED <<aqRpc, aqInstance, aqBase, aqQuote>>

\* ------------------------------------------------------------------ zerofi

\* PAIR_OFFSETS and the three flag bytes before them, in the order of the
\* source; the fields keep overlapping their neighbours as the 32-byte reads
\* at 0x0BA0, 0x0BB8, 0x0BC8, 0x0BD8, 0x0BE8 do.
PAIR_OFFSETS ==
    [ vault_info_base |-> 3, vault_base |-> 4, vault_info_quote |-> 5,
      vault_quote |-> 6, base_mint |-> 7, quote_mint |-> 10,
      swap_authority_pda |-> 14 ]
FLAG_OFFSET_TOKEN_2022 == 0
FLAG_OFFSET_FAST_PATH == 1
FLAG_OFFSET_BASE_LEFT == 2

PairFields ==
    << "vault_info_base", "vault_base", "vault_info_quote", "vault_quote",
       "base_mint", "quote_mint", "swap_authority_pda" >>

ZEROFI_PROGRAM_ID == b58encode("zerofi", <<8, 18>>)
ASSOCIATED_TOKEN_PROGRAM_ID == b58encode("zerofi", <<140, 151>>)
AUTHORITY_WHITELIST ==
    { b58encode("zerofi", <<6, 120>>), b58encode("zerofi", <<197, 96>>),
      b58encode("zerofi", <<21, 239>>) }

ZfRaised(kind, msg) == [ err |-> kind, msg |-> msg ]

\* read_pubkey: a chunk of another length than a key is a ValueError.
zf_read_pubkey(data, offset) ==
    IF Len(PySlice(data, offset, offset + KeyLen)) # KeyLen
        THEN ZfRaised("ValueError", "read_pubkey: too short")
    ELSE [ err |-> "none", msg |-> "",
           key |-> b58encode("zerofi", PySlice(data, offset, offset + KeyLen)) ]

\* decode_pair_layout: the keys in the order of PAIR_OFFSETS, then the flags.
decode_pair_layout(data) ==
    IF \E i \in 1..Len(PairFields) :
           zf_read_pubkey(data, PAIR_OFFSETS[PairFields[i]]).err # "none"
        THEN ZfRaised("ValueError", "read_pubkey: too short")
    ELSE [ err |-> "none", msg |-> "",
           vault_info_base |-> zf_read_pubkey(data, PAIR_OFFSETS.vault_info_base).key,
           vault_base |-> zf_read_pubkey(data, PAIR_OFFSETS.vault_base).key,
           vault_info_quote |-> zf_read_pubkey(data, PAIR_OFFSETS.vault_info_quote).key,
           vault_quote |-> zf_read_pubkey(data, PAIR_OFFSETS.vault_quote).key,
           base_mint |-> zf_read_pubkey(data, PAIR_OFFSETS.base_mint).key,
           quote_mint |-> zf_read_pubkey(data, PAIR_OFFSETS.quote_mint).key,
           swap_authority_pda |-> zf_read_pubkey(data, PAIR_OFFSETS.swap_authority_pda).key,
           uses_token2022 |-> data[FLAG_OFFSET_TOKEN_2022 + 1] % 2 = 1,
           fast_flag |-> data[FLAG_OFFSET_FAST_PATH + 1],
           base_on_left |-> data[FLAG_OFFSET_BASE_LEFT + 1] = 0 ]

\* find_ata: the three keys decoded from text, the associated token program
\* as the program id.
zf_find_ata(owner, mint, token_program) ==
    find_program_address("zerofi",
        << b58decode("zerofi", owner), b58decode("zerofi", token_program),
           b58decode("zerofi", mint) >>,
        b58decode("zerofi", ASSOCIATED_TOKEN_PROGRAM_ID))

\* The pair address and the user of the model.
ZfPairAddress == b58encode("zerofi", <<19, 77>>)
ZfUserKey == b58encode("zerofi", <<91, 7>>)

\* A pair account: its token-2022 flag and the authority it stores.
ZfPairData(flag, authority) ==
    << flag, 3, 0 >> \o << 101, 102, 103, 104, 31, 1, 0, 32, 2, 0, 0 >> \o authority

ZfAuthorities == { <<6, 120>>, <<197, 96>>, <<21, 239>>, <<66, 6>> }

\* The owner getAccountInfo reports for a mint; <<>>: no such account.
ZfMintOwners == { TOKEN_PROGRAM_V1, TOKEN_PROGRAM_2022, ZEROFI_PROGRAM_ID, <<>> }

ZfNoReport == [ err |-> "none", msg |-> "" ]
ZfNoLayout == [ err |-> "none", msg |-> "not decoded" ]
ZfNoMints == [ token_program |-> <<>> ]

ZfIdle ==
    /\ zfRpc = [ pair |-> <<>> ]
    /\ zfUser = <<>>
    /\ zfPc = "idle"
    /\ zfLayout = ZfNoLayout
    /\ zfMints = ZfNoMints
    /\ zfOut = ZfNoReport

ZfInit ==
    /\ \E flag \in {0, 1}, authority \in ZfAuthorities, cut \in {0, 1, 16},
          base \in ZfMintOwners, quote \in {TOKEN_PROGRAM_V1, <<>>} :
           zfRpc = [ pair |-> SubSeq(ZfPairData(flag, authority), 1,
                                     Len(ZfPairData(flag, authority)) - cut),
                     base_owner |-> base, quote_owner |-> quote ]
    /\ zfUser \in { <<>>, ZfUserKey }
    /\ zfPc = "start"
    /\ zfLayout = ZfNoLayout
    /\ zfMints = ZfNoMints
    /\ zfOut = ZfNoReport

ZfFail(kind, msg) ==
    /\ zfPc' = "failed"
    /\ zfOut' = ZfRaised(kind, msg)

\* data = fetch_pair_data(rpc_url, pair); layout = decode_pair_layout(data)
ZfDecodePair ==
    /\ zfPc = "start"
    /\ IF zfRpc.pair = <<>>
           THEN ZfFail("RpcError", "pair data empty") /\ UNCHANGED zfLayout
       ELSE /\ zfLayout' = decode_pair_layout(zfRpc.pair)
            /\ IF zfLayout'.err # "none" THEN ZfFail(zfLayout'.err, zfLayout'.msg)
               ELSE zfPc' = "decoded" /\ UNCHANGED zfOut
    /\ UNCHANGED <<zfRpc, zfUser, zfMints>>

\* The two fetch_mint_owner calls with their except RpcError branches, and
\* the choice of token_program.
zf_base_owner(rpc) == IF rpc.base_owner = <<>> THEN TOKEN_PROGRAM_V1 ELSE rpc.base_owner
zf_quote_owner(rpc) == IF rpc.quote_owner = <<>> THEN zf_base_owner(rpc) ELSE rpc.quote_owner

zf_known_program(token_program) ==
    IF token_program \notin {TOKEN_PROGRAM_V1, TOKEN_PROGRAM_2022} THEN TOKEN_PROGRAM_V1
    ELSE token_program

zf_token_program(layout, base_owner) ==
    zf_known_program(IF layout.uses_token2022 THEN TOKEN_PROGRAM_2022 ELSE base_owner)

ZfResolveMints ==
    /\ zfPc = "decoded"
    /\ zfMints' = [ base_owner |-> zf_base_owner(zfRpc),
                    quote_owner |-> zf_quote_owner(zfRpc),
                    token_program |-> zf_token_program(zfLayout, zf_base_owner(zfRpc)) ]
    /\ zfPc' = "mints"
    /\ UNCHANGED <<zfRpc, zfUser, zfLayout, zfOut>>

\* accounts, in the order of the list in the source.
zf_accounts(layout, token_program, user_base_token, user_quote_token) ==
    << <<"pair", ZfPairAddress>>,
       <<"vault_info_base", layout.vault_info_base>>,
       <<"vault_base", layout.vault_base>>,
       <<"vault_info_quote", layout.vault_info_quote>>,
       <<"vault_quote", layout.vault_quote>>,
       <<"user_base_token", user_base_token>>,
       <<"user_quote_token", user_quote_token>>,
       <<"swap_authority", layout.swap_authority_pda>>,
       <<"token_program", token_program>>,
       <<"sysvar_instructions", SYSVAR_INSTRUCTIONS>> >>

\* authority_warning and the returned dict.
zf_report(layout, mints, user_authority, user_base_token, user_quote_token) ==
    [ err |-> "none", msg |-> "",
      user_authority |-> user_authority,
      accounts |-> zf_accounts(layout, mints.token_program, user_base_token, user_quote_token),
      mint_meta |-> [ base |-> mints.base_owner, quote |-> mints.quote_owner ],
      authority_warning |->
          IF layout.swap_authority_pda \notin AUTHORITY_WHITELIST
              THEN "authority not in whitelist" ELSE "None" ]

\* if user: the two find_ata calls, any exception becoming an RpcError.
zf_with_user(layout, mints, user, base_ata, quote_ata) ==
    IF base_ata.err # "none" THEN ZfFail("RpcError", "user base ATA failed")
    ELSE IF quote_ata.err # "none" THEN ZfFail("RpcError", "user quote ATA failed")
    ELSE /\ zfPc' = "resolved"
         /\ zfOut' = zf_report(layout, mints, user, b58encode("zerofi", base_ata.addr),
                               b58encode("zerofi", quote_ata.addr))

ZfAssemble ==
    /\ zfPc = "mints"
    /\ IF zfUser # <<>>
           THEN zf_with_user(zfLayout, zfMints, zfUser,
                    zf_find_ata(zfUser, zfLayout.base_mint, zfMints.token_program),
                    zf_find_ata(zfUser, zfLayout.quote_mint, zfMints.token_program))
       ELSE /\ zfPc' = "resolved"
            /\ zfOut' = zf_report(zfLayout, zfMints, <<"<user-authority>">>,
                                  <<"<user-base-token-account>">>,
                                  <<"<user-quote-token-account>">>)
    /\ UNCHANGED <<zfRpc, zfUser, zfLayout, zfMints>>

\* ------------------------------------------------------------------ goonfi

\* The offsets parse_pool and goonfi_seeds read the pool data at (0x0E0 ...
\* 0x38E in the source), the length parse_pool requires (0x1b8 + 32) and the
\* three router seeds of JUPITER_ROUTER_SEED_OFFSETS.
GF_POOL_LAYOUT ==
    [ global_state |-> 0, base_mint |-> KeyLen, quote_mint |-> 2 * KeyLen,
      base_vault |-> 3 * KeyLen, quote_vault |-> 4 * KeyLen, core_length |-> 6 * KeyLen,
      router_seeds |-> << 6 * KeyLen, 7 * KeyLen, 8 * KeyLen >>,
      signer_bump |-> 9 * KeyLen + 1, router_flag |-> 9 * KeyLen + 2,
      blacklist_flag |-> 9 * KeyLen + 3 ]

GOONFI_PROGRAM_ID == b58encode("goonfi", <<10, 71>>)
GOONFI_GLOBAL_STATE == b58encode("goonfi", <<13, 140>>)

\* The literals goonfi_seeds takes from the program's rodata, and the program
\* id of the Jupiter router.
MARKET_LITERAL_PREFIX32 == <<109, 97>>
MARKET_LITERAL_SUFFIX == <<114>>
VAULT_LITERAL == <<118, 97>>
JUPITER_V6_PROGRAM_ID == <<4, 121>>

\* Python's None, and what a failed step leaves behind.
None == <<"None">>
GfRaised(kind, msg) == [ err |-> kind, msg |-> msg ]

\* read_pubkey: an all-zero chunk is the string of ones.
gf_read_pubkey(data, offset) ==
    IF \A i \in 1..KeyLen : data[offset + i] = 0 THEN Repeat("1", KeyLen)
    ELSE b58encode("goonfi", PySlice(data, offset, offset + KeyLen))

\* _slice_pool_bytes: out of range or all zero is a ValueError.
gf_slice_fails(pool_state, offset) ==
    \/ offset + KeyLen > Len(pool_state)
    \/ \A i \in 1..KeyLen : pool_state[offset + i] = 0

\* build_swap_authority_seeds for the Jupiter router: the literals, the router
\* program id, the three slices of the pool state.
build_swap_authority_seeds(pool_state) ==
    << MARKET_LITERAL_PREFIX32, MARKET_LITERAL_SUFFIX, VAULT_LITERAL, JUPITER_V6_PROGRAM_ID,
       PySlice(pool_state, GF_POOL_LAYOUT.router_seeds[1], GF_POOL_LAYOUT.router_seeds[1] + KeyLen),
       PySlice(pool_state, GF_POOL_LAYOUT.router_seeds[2], GF_POOL_LAYOUT.router_seeds[2] + KeyLen),
       PySlice(pool_state, GF_POOL_LAYOUT.router_seeds[3], GF_POOL_LAYOUT.router_seeds[3] + KeyLen) >>

\* What build_swap_authority_seeds and read_pool_signer_bump raise.
gf_seeds_error(pool_state, router) ==
    IF router # "jupiter_v6" THEN "NotImplementedError"
    ELSE IF \E i \in 1..3 : gf_slice_fails(pool_state, GF_POOL_LAYOUT.router_seeds[i])
        THEN "ValueError"
    ELSE IF GF_POOL_LAYOUT.signer_bump >= Len(pool_state) THEN "ValueError"
    ELSE "none"

GfSigner(pda, seeds_used) ==
    [ err |-> "none", msg |-> "", address |-> b58encode("goonfi", pda.addr),
      bump |-> pda.bump, seeds |-> seeds_used ]

\* derive_swap_authority_address, second attempt: without the pool key.
gf_signer_without_pool(seeds_used, bump, derived) ==
    IF derived.err # "none" THEN GfRaised(derived.err, derived.msg)
    ELSE IF derived.bump = bump THEN GfSigner(derived, seeds_used)
    ELSE GfRaised("ValueError", "derived bump differs from the stored bump")

\* derive_swap_authority_address, first attempt: seeds + pool_pubkey.
gf_signer_with_pool(seeds_used, pool_bytes, bump, derived) ==
    IF derived.err # "none" THEN GfRaised(derived.err, derived.msg)
    ELSE IF derived.bump = bump THEN GfSigner(derived, Append(seeds_used, pool_bytes))
    ELSE gf_signer_without_pool(seeds_used, bump,
             find_program_address("goonfi", seeds_used, b58decode("goonfi", GOONFI_PROGRAM_ID)))

derive_swap_authority_address(pool_pubkey, pool_state, router) ==
    IF gf_seeds_error(pool_state, router) # "none"
        THEN GfRaised(gf_seeds_error(pool_state, router), "swap authority seeds")
    ELSE gf_signer_with_pool(build_swap_authority_seeds(pool_state),
             b58decode("goonfi", pool_pubkey),
             pool_state[GF_POOL_LAYOUT.signer_bump + 1],
             find_program_address("goonfi",
                 Append(build_swap_authority_seeds(pool_state), b58decode("goonfi", pool_pubkey)),
                 b58decode("goonfi", GOONFI_PROGRAM_ID)))

\* find_ata of goonfi_decode.
gf_find_ata(owner, mint, token_program) ==
    find_program_address("goonfi",
        << b58decode("goonfi", owner), b58decode("goonfi", token_program),
           b58decode("goonfi", mint) >>,
        b58decode("goonfi", ASSOCIATED_TOKEN_PROGRAM_ID))

\* The pool address and the user of the model.
GfPoolKey == <<19, 88>>
GfPoolAddress == b58encode("goonfi", GfPoolKey)
GfUserKey == b58encode("goonfi", <<91, 7>>)

\* A pool account: its base mint, the stored signer bump and the router flag.
GfPoolData(base_mint, bump, flag) ==
    <<71, 1>> \o base_mint \o <<32, 2>> \o <<33, 3>> \o <<34, 4>> \o <<0, 0>>
    \o <<41, 1>> \o <<42, 2>> \o <<43, 3>> \o <<0>> \o <<bump>> \o <<flag>> \o <<0>>

\* The bumps a pool may store: the one derived with the pool key, the one
\* derived without it, and one that is neither.
GfBumps(with_pool, without_pool) ==
    { with_pool.bump, without_pool.bump,
      CHOOSE b \in 0..MaxBump : b \notin {with_pool.bump, without_pool.bump} }

\* How many bytes the pool account is short of the full layout.
GfCuts == {0, 1, 2, 3, 6, 10, 11, 22}

GfNoPool == [ router_flag |-> -1 ]
GfNoCore == [ vault_authority |-> None ]
GfNoResult == [ err |-> "none", msg |-> "not returned" ]

GfIdle ==
    /\ gfRpc = [ pool |-> <<>> ]
    /\ gfUser = <<>>
    /\ gfPc = "idle"
    /\ gfPool = GfNoPool
    /\ gfCore = GfNoCore
    /\ gfOut = GfNoResult
    /\ gfSummary = <<>>

GfInit ==
    /\ \E with_pool \in { find_program_address("goonfi",
                              Append(build_swap_authority_seeds(GfPoolData(<<31, 1>>, 0, 0)),
                                     GfPoolKey),
                              <<10, 71>>) },
          without_pool \in { find_program_address("goonfi",
                                 build_swap_authority_seeds(GfPoolData(<<31, 1>>, 0, 0)),
                                 <<10, 71>>) } :
         \E bump \in GfBumps(with_pool, without_pool), flag \in 0..3, cut \in GfCuts,
            base_mint \in { <<31, 1>>, <<0, 0>> }, vault_owner \in { <<"8", "x">>, None },
            mint_owner \in { TOKEN_PROGRAM_V1, <<>> } :
             gfRpc = [ pool |-> SubSeq(GfPoolData(base_mint, bump, flag), 1,
                                       Len(GfPoolData(base_mint, bump, flag)) - cut),
                       vault_owner |-> vault_owner,
                       base_mint_owner |-> TOKEN_PROGRAM_V1,
                       quote_mint_owner |-> mint_owner ]
    /\ gfUser \in { <<>>, GfUserKey }
    /\ gfPc = "start"
    /\ gfPool = GfNoPool
    /\ gfCore = GfNoCore
    /\ gfOut = GfNoResult
    /\ gfSummary = <<>>

GfFail(kind, msg) ==
    /\ gfPc' = "failed"
    /\ gfOut' = GfRaised(kind, msg)

\* parse_pool: getAccountInfo, the length test, the five keys and the flags.
gf_pool_fields(raw) ==
    [ global_state_in_data |-> gf_read_pubkey(raw, GF_POOL_LAYOUT.global_state),
      base_mint |-> gf_read_pubkey(raw, GF_POOL_LAYOUT.base_mint),
      quote_mint |-> gf_read_pubkey(raw, GF_POOL_LAYOUT.quote_mint),
      base_vault |-> gf_read_pubkey(raw, GF_POOL_LAYOUT.base_vault),
      quote_vault |-> gf_read_pubkey(raw, GF_POOL_LAYOUT.quote_vault),
      router_flag |-> IF Len(raw) > GF_POOL_LAYOUT.router_flag
                          THEN raw[GF_POOL_LAYOUT.router_flag + 1] ELSE -1,
      blacklist_flag |-> IF Len(raw) > GF_POOL_LAYOUT.blacklist_flag
                             THEN raw[GF_POOL_LAYOUT.blacklist_flag + 1] ELSE -1 ]

GfReadPool ==
    /\ gfPc = "start"
    /\ IF gfRpc.pool = <<>>
           THEN GfFail("RpcError", "pool data empty") /\ UNCHANGED gfPool
       ELSE IF Len(gfRpc.pool) < GF_POOL_LAYOUT.core_length
           THEN GfFail("RpcError", "pool data too short") /\ UNCHANGED gfPool
       ELSE /\ gfPool' = gf_pool_fields(gfRpc.pool)
            /\ gfPc' = "pool"
            /\ UNCHANGED gfOut
    /\ UNCHANGED <<gfRpc, gfUser, gfCore, gfSummary>>

\* parse_pool: the vault details, the mint owners and the user's accounts.
gf_core(rpc, user_authority, user_base_token, user_quote_token) ==
    [ vault_authority |-> rpc.vault_owner,
      base_token_program |-> rpc.base_mint_owner,
      quote_token_program |-> rpc.quote_mint_owner,
      user_authority |-> user_authority,
      user_base_token |-> user_base_token,
      user_quote_token |-> user_quote_token ]

gf_with_user(rpc, user, base_ata, quote_ata) ==
    IF base_ata.err # "none"
        THEN GfFail("RpcError", "user base ATA failed") /\ UNCHANGED gfCore
    ELSE IF quote_ata.err # "none"
        THEN GfFail("RpcError", "user quote ATA failed") /\ UNCHANGED gfCore
    ELSE /\ gfCore' = gf_core(rpc, user, b58encode("goonfi", base_ata.addr),
                              b58encode("goonfi", quote_ata.addr))
         /\ gfPc' = "accounts"
         /\ UNCHANGED gfOut

GfResolveAccounts ==
    /\ gfPc = "pool"
    /\ IF gfRpc.base_mint_owner = <<>> \/ gfRpc.quote_mint_owner = <<>>
           THEN GfFail("RpcError", "mint does not exist") /\ UNCHANGED gfCore
       ELSE IF gfUser # <<>>
           THEN gf_with_user(gfRpc, gfUser,
                    gf_find_ata(gfUser, gfPool.base_mint, gfRpc.base_mint_owner),
                    gf_find_ata(gfUser, gfPool.quote_mint, gfRpc.quote_mint_owner))
       ELSE /\ gfCore' = gf_core(gfRpc, <<"<user-authority>">>,
                                 <<"<user-base-token-account>">>,
                                 <<"<user-quote-token-account>">>)
            /\ gfPc' = "accounts"
            /\ UNCHANGED gfOut
    /\ UNCHANGED <<gfRpc, gfUser, gfPool, gfSummary>>

\* parse_pool: the router of a flag; None for a flag above 2.
gf_router_program(router_flag) ==
    CASE router_flag \in {-1, 0} -> "jupiter_v6"
      [] router_flag = 1 -> "step_aggregator"
      [] router_flag = 2 -> "goon_blacklist"
      [] OTHER -> "None"

\* try: derive_swap_authority_address(...) except Exception: the error goes
\* to pool_signer_detail and notes; then the returned dict.
gf_result(pool, core, router_program, signer) ==
    [ err |-> "none", msg |-> "",
      core_accounts |->
          [ global_state |-> GOONFI_GLOBAL_STATE,
            pool_state |-> GfPoolAddress,
            user_authority |-> core.user_authority,
            base_vault |-> pool.base_vault,
            quote_vault |-> pool.quote_vault,
            sysvar_instructions |-> SYSVAR_INSTRUCTIONS,
            base_mint |-> pool.base_mint,
            quote_mint |-> pool.quote_mint,
            base_token_program |-> core.base_token_program,
            quote_token_program |-> core.quote_token_program,
            user_base_token |-> core.user_base_token,
            user_quote_token |-> core.user_quote_token,
            vault_authority |-> core.vault_authority,
            pool_signer |-> IF router_program # "None" /\ signer.err = "none"
                                THEN signer.address ELSE None ],
      router_program |-> router_program,
      derived_pool_signer |-> IF router_program = "None" THEN "None"
                              ELSE IF signer.err = "none" THEN "derived" ELSE "error",
      notes |-> IF router_program # "None" /\ signer.err # "none"
                    THEN <<"swap authority failed">> ELSE <<>> ]

GfDeriveSigner ==
    /\ gfPc = "accounts"
    /\ gfOut' = gf_result(gfPool, gfCore, gf_router_program(gfPool.router_flag),
                          derive_swap_authority_address(GfPoolAddress, gfRpc.pool,
                              gf_router_program(gfPool.router_flag)))
    /\ gfPc' = "returned"
    /\ UNCHANGED <<gfRpc, gfUser, gfPool, gfCore, gfSummary>>

\* print_human_summary: the nine lines of the swap account order.
print_human_summary(core) ==
    << <<"0", "user_authority", core.user_authority>>,
       <<"1", "pool_state", core.pool_state>>,
       <<"2", "user_base_token", core.user_base_token>>,
       <<"3", "user_quote_token", core.user_quote_token>>,
       <<"4", "base_vault", core.base_vault>>,
       <<"5", "quote_vault", core.quote_vault>>,
       <<"6", "pool_signer",
         IF core.pool_signer = None THEN <<"<unresolved>">> ELSE core.pool_signer>>,
       <<"7", "sysvar_instructions", core.sysvar_instructions>>,
       <<"8", "token_program", core.base_token_program>> >>

GfPrintSummary ==
    /\ gfPc = "returned"
    /\ gfSummary' = print_human_summary(gfOut.core_accounts)
    /\ gfPc' = "printed"
    /\ UNCHANGED <<gfRpc, gfUser, gfPool, gfCore, gfOut>>


\* ------------------------------------------- the bump loop, step by step

\* find_program_address of aquifer (find_program_address_bytes) and tessera_v,
\* one pass of `for bump in range(255, -1, -1)` per step.

\* range(255, -1, -1): the first bump, the bump after a pass, and whether the
\* range is used up.
range_first == MaxBump
\* A loop variable that does not move on: the loop that tries a bump again.
range_stuck(bump) == bump
range_next(bump) == bump - 1
range_done(bump) == bump < 0

FpNoResult == Raised("none", "")

FpIdle ==
    /\ fpReq = [ dec |-> "none" ]
    /\ fpBump = range_first
    /\ fpTried = <<>>
    /\ fpPc = "idle"
    /\ fpOut = FpNoResult

FpInit ==
    /\ fpReq \in [ dec : {"aquifer", "tessera_v"}, seeds : SeedLists, program_id : ProgramIds ]
    /\ fpBump = range_first
    /\ fpTried = <<>>
    /\ fpPc = "loop"
    /\ fpOut = FpNoResult

\* try: addr = create_program_address(...); return addr, bump
\* except ValueError: continue
fp_pass(r, bump) ==
    IF r.err = "none"
        THEN /\ fpOut' = r
             /\ fpPc' = "returned"
             /\ fpBump' = bump
    ELSE /\ fpBump' = range_next(bump)
         /\ UNCHANGED <<fpOut, fpPc>>

FpAttempt ==
    /\ fpPc = "loop"
    /\ ~range_done(fpBump)
    /\ fpTried' = Append(fpTried, fpBump)
    /\ fp_pass(try_bump(fpReq.dec, fpReq.seeds, fpReq.program_id, fpBump), fpBump)
    /\ UNCHANGED fpReq

\* raise RuntimeError(...) once the range is used up
FpExhausted ==
    /\ fpPc = "loop"
    /\ range_done(fpBump)
    /\ fpOut' = Raised("RuntimeError", "no valid PDA")
    /\ fpPc' = "raised"
    /\ UNCHANGED <<fpReq, fpBump, fpTried>>


\* ------------------------------------------------- the curve test, applied

\* The points is_on_curve is called with: low and high bytes around 0, around
\* p (0x7FED at the model's width) and around the sign bit.
CurveLowBytes == {0, 1, 2, 3, 4, 127, 236, 237, 238, 255}
CurveHighBytes == {0, 1, 127, 128, 255}
CurvePoints == { <<lo, hi>> : lo \in CurveLowBytes, hi \in CurveHighBytes }

CvIdle ==
    /\ cvPoint = <<0, 0>>
    /\ cvDec = "none"
    /\ cvOut = FALSE

CvInit ==
    /\ cvPoint \in CurvePoints
    /\ cvDec = "none"
    /\ cvOut = FALSE

\* A call of is_on_curve of decoder dec on the point.
IsOnCurve(dec) ==
    /\ cvDec = "none"
    /\ cvDec' = dec
    /\ cvOut' = is_on_curve(dec, cvPoint)
    /\ UNCHANGED cvPoint

CvNext == \E dec \in Decoders : IsOnCurve(dec)


\* ------------------------------------------- saros layout, written and read

\* The fields a pool account is filled with, and the buffer they are written
\* to at the offsets of POOL_LAYOUT before parse_pool decodes it.

RtKeyFields ==
    << "token_program", "token_a", "token_b", "pool_mint", "fee_account",
       "token_a_mint", "token_b_mint" >>

RtU64Fields == << "token_a_deposit", "token_b_deposit", "token_a_fees", "token_b_fees" >>

FeeNames == { FEE_FIELD_NAMES[i] : i \in 1..Len(FEE_FIELD_NAMES) }

\* The values a field is given: keys are fixed, one per field; the numbers
\* include one that needs two bytes.
RtAssignments ==
    { [ version |-> 1, is_initialized |-> 1, bump_seed |-> bump,
        token_program |-> <<6, 221>>, token_a |-> <<11, 1>>, token_b |-> <<12, 2>>,
        pool_mint |-> <<13, 3>>, fee_account |-> <<14, 4>>,
        token_a_mint |-> <<15, 5>>, token_b_mint |-> <<16, 6>>,
        token_a_deposit |-> deposit, token_b_deposit |-> 200,
        token_a_fees |-> 3, token_b_fees |-> 4,
        fees |-> fees, curve_type |-> curve ] :
      bump \in {0, 254}, deposit \in {0, 258}, fees \in [ FeeNames -> {0, 7} ],
      curve \in {0, 2} }

\* buf[offset : offset + len(data)] = data
WriteAt(buf, offset, data) ==
    [ i \in 1..Len(buf) |->
        IF i > offset /\ i <= offset + Len(data) THEN data[i - offset] ELSE buf[i] ]

RECURSIVE WriteAll(_, _)
WriteAll(buf, writes) ==
    IF writes = <<>> THEN buf
    ELSE WriteAll(WriteAt(buf, Head(writes)[1], Head(writes)[2]), Tail(writes))

\* One write per declared field, in the order POOL_LAYOUT declares them: the
\* three header bytes, the keys, the u64 fields, the eight fees, curve_type.
RtWrites(f) ==
    << <<POOL_LAYOUT.version, <<f.version>>>>,
       <<POOL_LAYOUT.is_initialized, <<f.is_initialized>>>>,
       <<POOL_LAYOUT.bump_seed, <<f.bump_seed>>>> >>
    \o [ i \in 1..Len(RtKeyFields) |-> <<POOL_LAYOUT[RtKeyFields[i]], f[RtKeyFields[i]]>> ]
    \o [ i \in 1..Len(RtU64Fields) |->
           <<POOL_LAYOUT[RtU64Fields[i]], ToBytesLE(f[RtU64Fields[i]], U64Len)>> ]
    \o [ i \in 1..Len(FEE_FIELD_NAMES) |->
           <<POOL_LAYOUT.fees + (i - 1) * U64Len, ToBytesLE(f.fees[FEE_FIELD_NAMES[i]], U64Len)>> ]
    \o << <<POOL_LAYOUT.curve_type, <<f.curve_type>>>> >>

\* The buffer: zeroes up to the end of the last fee.
RtEmpty == Zeros(POOL_LAYOUT.fees + Len(FEE_FIELD_NAMES) * U64Len)

RtIdle ==
    /\ rtFields = [ version |-> 0 ]
    /\ rtBuf = <<>>
    /\ rtPc = "idle"
    /\ rtOut = NoPoolState

RtInit ==
    /\ rtFields \in RtAssignments
    /\ rtBuf = RtEmpty
    /\ rtPc = "start"
    /\ rtOut = NoPoolState

\* The fields are written into the buffer.
RtWrite ==
    /\ rtPc = "start"
    /\ rtBuf' = WriteAll(rtBuf, RtWrites(rtFields))
    /\ rtPc' = "written"
    /\ UNCHANGED <<rtFields, rtOut>>

\* parse_pool(raw) on the buffer.
RtParsePool ==
    /\ rtPc = "written"
    /\ rtOut' = saros_parse_pool(rtBuf)
    /\ rtPc' = "decoded"
    /\ UNCHANGED <<rtFields, rtBuf>>


\* ---------------------------------------------------------------- obric_v2

\* The keys of a trading pair of the model.
ObKey(n) == b58encode("obric_v2", <<40, n>>)

\* What build_swap_accounts returns: the pair, its mints, reserves, oracles and
\* price feeds, the ui accounts (mint_sslp_x and mint_sslp_y fall back to the
\* mints), the token program and the user's accounts (placeholders without
\* --user).
ObResult(sslp_x, sslp_y, user) ==
    [ trading_pair |-> ObKey(1),
      mints |-> [ mint_x |-> ObKey(2), mint_y |-> ObKey(3) ],
      reserves |-> [ reserve_x |-> ObKey(4), reserve_y |-> ObKey(5),
                     swap_authority |-> ObKey(6) ],
      oracles |-> [ reference_oracle |-> ObKey(7),
                    second_reference_oracle |-> ObKey(8),
                    third_reference_oracle |-> ObKey(9) ],
      price_feeds |-> [ x_price_feed |-> ObKey(10), y_price_feed |-> ObKey(11) ],
      ui_accounts |-> [ mint_x |-> sslp_x, mint_y |-> sslp_y, protocol_fee |-> ObKey(10) ],
      token_program |-> TOKEN_PROGRAM_V1,
      user |-> user ]

ObUsers ==
    { [ authority |-> <<"<user-authority>">>,
        source_token_account |-> <<"<user-source-token>">>,
        destination_token_account |-> <<"<user-destination-token>">> ],
      [ authority |-> ObKey(20), source_token_account |-> ObKey(21),
        destination_token_account |-> ObKey(22) ],
      [ authority |-> ObKey(20), source_token_account |-> ObKey(22),
        destination_token_account |-> ObKey(21) ] }

ObResults ==
    { ObResult(sslp_x, sslp_y, user) :
        sslp_x \in {ObKey(2), ObKey(12)}, sslp_y \in {ObKey(3), ObKey(13)}, user \in ObUsers }

\* The default branch of assemble_accounts: the swap order of the old UI.
assemble_accounts_swap(data) ==
    << <<"trading_pair", data.trading_pair, TRUE>>,
       <<"mint_x", data.ui_accounts.mint_x, FALSE>>,
       <<"mint_y", data.ui_accounts.mint_y, FALSE>>,
       <<"reserve_x", data.reserves.reserve_x, TRUE>>,
       <<"reserve_y", data.reserves.reserve_y, TRUE>>,
       <<"user_token_account_x", data.user.source_token_account, TRUE>>,
       <<"user_token_account_y", data.user.destination_token_account, TRUE>>,
       <<"protocol_fee", data.ui_accounts.protocol_fee, TRUE>>,
       <<"x_price_feed", data.price_feeds.x_price_feed, TRUE>>,
       <<"y_price_feed", data.price_feeds.y_price_feed, TRUE>>,
       <<"user_authority", data.user.authority, TRUE>>,
       <<"token_program", data.token_program, FALSE>> >>

\* if order == "swap2": ...
assemble_accounts_swap2(data) ==
    << <<"trading_pair", data.trading_pair, FALSE>>,
       <<"second_reference_oracle", data.oracles.second_reference_oracle, FALSE>>,
       <<"third_reference_oracle", data.oracles.third_reference_oracle, FALSE>>,
       <<"reserve_x", data.reserves.reserve_x, TRUE>>,
       <<"reserve_y", data.reserves.reserve_y, TRUE>>,
       <<"user_source_token", data.user.source_token_account, TRUE>>,
       <<"user_destination_token", data.user.destination_token_account, TRUE>>,
       <<"reference_oracle", data.oracles.reference_oracle, FALSE>>,
       <<"x_price_feed", data.price_feeds.x_price_feed, FALSE>>,
       <<"y_price_feed", data.price_feeds.y_price_feed, FALSE>>,
       <<"swap_authority", data.reserves.swap_authority, FALSE>>,
       <<"token_program", data.token_program, FALSE>> >>

\* An assembler that gives the swap order whatever order is asked for.
assemble_accounts_ignoring_order(data, order) == assemble_accounts_swap(data)

assemble_accounts(data, order) ==
    IF order = "swap2" THEN assemble_accounts_swap2(data)
    ELSE assemble_accounts_swap(data)

ObIdle ==
    /\ obData = [ trading_pair |-> <<>> ]
    /\ obOrder = "none"
    /\ obPc = "idle"
    /\ obOut = <<>>

ObInit ==
    /\ obData \in ObResults
    /\ obOrder \in {"swap", "swap2"}
    /\ obPc = "built"
    /\ obOut = <<>>

\* main: accounts = assemble_accounts(result, args.order)
ObAssemble ==
    /\ obPc = "built"
    /\ obOut' = assemble_accounts(obData, obOrder)
    /\ obPc' = "assembled"
    /\ UNCHANGED <<obData, obOrder>>


\* ------------------------------------- aquifer: the module-level program id

\* PROGRAM_ID_BYTES is a module global: None when the module is loaded, set
\* by main. decode_dex_instance reads it at each call.

\* decode_dex_instance with the value the global has at the call: the length
\* check comes first; hasher.update(None) raises TypeError, which the bump
\* loop (except ValueError) does not catch.
decode_dex_instance_reading(raw, program_id_bytes) ==
    IF Len(raw) < INSTANCE_LAYOUT.mm_account + KeyLen
        THEN AqRaised("ValueError", "dex_instance data too short")
    ELSE IF program_id_bytes = None
        THEN AqRaised("TypeError", "object supporting the buffer API required")
    ELSE aq_instance_fields(raw,
             find_program_address("aquifer",
                 << SEED_DEX, aq_read_pubkey(raw, INSTANCE_LAYOUT.dex_owner) >>,
                 program_id_bytes))

\* How many calls of a run are recorded.
MaxCalls == 3

\* The dex_instance buffers the calls are made on: a consistent one, one with
\* a byte of the stored dex changed, one too short.
GlBuffers ==
    UNION { {instance, AqCut(instance)} \cup { AqPatch(instance, off) : off \in 0..(Len(instance) - 1) } :
            instance \in { AqInstanceData(AqDex, AqCoin(AqDex, "base"), AqCoin(AqDex, "quote")) } }
GlIdle ==
    /\ glProgramIdBytes = None
    /\ glRaw = <<>>
    /\ glResults = <<>>

\* The module is loaded: PROGRAM_ID_BYTES = None.
GlInit ==
    /\ glProgramIdBytes = None
    /\ glRaw \in GlBuffers
    /\ glResults = <<>>

\* main: global PROGRAM_ID_BYTES; PROGRAM_ID_BYTES = b58decode(PROGRAM_ID),
\* then resolve_accounts, which decodes the instance.
GlMain ==
    /\ Len(glResults) < MaxCalls
    /\ glProgramIdBytes' = b58decode("aquifer", AQUIFER_PROGRAM_ID)
    /\ glResults' = Append(glResults, decode_dex_instance_reading(glRaw, glProgramIdBytes'))
    /\ UNCHANGED glRaw

\* A call of decode_dex_instance(raw) from a caller of the module.
GlDecodeDexInstance ==
    /\ Len(glResults) < MaxCalls
    /\ glResults' = Append(glResults, decode_dex_instance_reading(glRaw, glProgramIdBytes))
    /\ UNCHANGED <<glProgramIdBytes, glRaw>>


\* ------------------------------------------ fetch_txs: parallel downloads

\* The signatures fetch_signatures returned, as positions in the list.
TxCount == 3
TxSignatures == 1..TxCount

\* --workers values tried.
TxWorkerArgs == {1, 2, 8}

\* What the RPC does with a getTransaction request.
TxOutcomes == {"tx", "empty", "rpc error"}

\* download: the transaction, or the exception it raises.
download(outcome) ==
    CASE outcome = "rpc error" -> [ raised |-> TRUE, exc |-> "RPC request failed" ]
      [] outcome = "empty" -> [ raised |-> TRUE, exc |-> "empty transaction" ]
      [] OTHER -> [ raised |-> FALSE, exc |-> "" ]

\* A failure report that ignores the failed future: the mutation of collect.
collect_dropping_failure(failures, written, sig, result) ==
    [ failures |-> failures,
      written |-> IF result.raised THEN written ELSE written \cup {sig} ]

\* The body of the as_completed loop for one finished future.
collect(failures, written, sig, result) ==
    IF result.raised
        THEN [ failures |-> Append(failures, [ sig |-> sig, exc |-> result.exc ]),
               written |-> written ]
    ELSE [ failures |-> failures, written |-> written \cup {sig} ]

TxRunning == { sig \in TxSignatures : txFuture[sig].state = "running" }

TxIdle ==
    /\ txWorkers = 0
    /\ txFuture = <<>>
    /\ txSeen = {}
    /\ txWritten = {}
    /\ txFailures = <<>>
    /\ txPc = "idle"

\* executor.submit for every signature: all futures queued.
TxInit ==
    /\ \E workers \in TxWorkerArgs :
         txWorkers = (IF workers < TxCount THEN workers ELSE TxCount)
    /\ txFuture = [ sig \in TxSignatures |-> [ state |-> "queued", raised |-> FALSE, exc |-> "" ] ]
    /\ txSeen = {}
    /\ txWritten = {}
    /\ txFailures = <<>>
    /\ txPc = "collecting"

\* A free worker thread takes the next queued call.
TxStart ==
    /\ txPc = "collecting"
    /\ Cardinality(TxRunning) < txWorkers
    /\ \E sig \in TxSignatures :
         /\ txFuture[sig].state = "queued"
         /\ \A earlier \in 1..(sig - 1) : txFuture[earlier].state # "queued"
         /\ txFuture' = [ txFuture EXCEPT ![sig].state = "running" ]
    /\ UNCHANGED <<txWorkers, txSeen, txWritten, txFailures, txPc>>

\* A running download returns or raises; its future is finished.
TxFinish ==
    /\ txPc = "collecting"
    /\ \E sig \in TxRunning, outcome \in TxOutcomes :
         \E result \in {download(outcome)} :
           txFuture' = [ txFuture EXCEPT ![sig] =
                           [ state |-> "finished", raised |-> result.raised, exc |-> result.exc ] ]
    /\ UNCHANGED <<txWorkers, txSeen, txWritten, txFailures, txPc>>

\* as_completed yields a finished future; main records it.
TxCollect ==
    /\ txPc = "collecting"
    /\ \E sig \in TxSignatures \ txSeen :
         /\ txFuture[sig].state = "finished"
         /\ \E after \in {collect(txFailures, txWritten, sig, txFuture[sig])} :
              /\ txFailures' = after.failures
              /\ txWritten' = after.written
         /\ txSeen' = txSeen \cup {sig}
    /\ UNCHANGED <<txWorkers, txFuture, txPc>>

\* as_completed is exhausted; the executor shuts down and main reports.
TxReport ==
    /\ txPc = "collecting"
    /\ txSeen = TxSignatures
    /\ txPc' = "done"
    /\ UNCHANGED <<txWorkers, txFuture, txSeen, txWritten, txFailures>>


\* ----------------------------------- fetch_txs: RpcRoundRobin, rpc_request

\* Endpoints are numbered from 0 as in the _endpoints list.
MaxEndpoints == 3
RrThreads == {1, 2}

\* RpcRoundRobin.next, under its lock: the endpoint handed out and the new index.
rr_next(index, count) ==
    [ endpoint |-> index, index |-> (index + 1) % count ]

\* One pass of the for loop of rpc_request after the endpoint answered:
\* return on a good response, else record the error and continue, and
\* raise when range(len(rotator)) is exhausted.
rpc_request_step(call, count, ok) ==
    IF ok THEN [ call EXCEPT !.pc = "returned" ]
    ELSE [ call EXCEPT !.errors = Append(@, call.endpoint),
                       !.pc = IF call.round = count THEN "raised" ELSE "loop" ]

RrIdle ==
    /\ rrEndpoints = 0
    /\ rrIndex = 0
    /\ rrCall = <<>>

\* The rotator may have been used before the calls start.
RrInit ==
    /\ rrEndpoints \in 1..MaxEndpoints
    /\ rrIndex \in 0..(rrEndpoints - 1)
    /\ rrCall = [ t \in RrThreads |-> [ pc |-> "loop", round |-> 0, endpoint |-> 0, errors |-> <<>> ] ]

\* endpoint = rotator.next() in the thread's current pass.
RrNext ==
    \E t \in RrThreads :
        /\ rrCall[t].pc = "loop"
        /\ \E got \in {rr_next(rrIndex, rrEndpoints)} :
             /\ rrIndex' = got.index
             /\ rrCall' = [ rrCall EXCEPT ![t].pc = "request",
                                          ![t].round = @ + 1,
                                          ![t].endpoint = got.endpoint ]
        /\ UNCHANGED rrEndpoints

\* The endpoint answers the thread's request, well or not.
RrAnswer ==
    \E t \in RrThreads, ok \in BOOLEAN :
        /\ rrCall[t].pc = "request"
        /\ rrCall' = [ rrCall EXCEPT ![t] = rpc_request_step(rrCall[t], rrEndpoints, ok) ]
        /\ UNCHANGED <<rrEndpoints, rrIndex>>


\* ------------------------------------------- fetch_txs: fetch_signatures

\* A batch entry is its "signature" value: 0 for a missing or empty one.
MaxTotal == 3
MaxBatch == 2
FsSignatureValues == {0, 1, 2}
FsBatches == UNION { [ 1..n -> FsSignatureValues ] : n \in 0..MaxBatch }

\* A pass that moves the cursor and appends nothing: the mutation of the pass.
fetch_signatures_pass_appending_nothing(signatures, batch) ==
    [ signatures |-> signatures, before |-> batch[Len(batch)] ]

\* One pass over a non-empty batch: the entries with a signature are
\* appended, the cursor is the signature of the last entry.
fetch_signatures_pass(signatures, batch) ==
    [ signatures |-> signatures \o SelectSeq(batch, LAMBDA sig : sig # 0),
      before |-> batch[Len(batch)] ]

\* return signatures[:total]
fs_return(signatures, total) ==
    SubSeq(signatures, 1, IF Len(signatures) < total THEN Len(signatures) ELSE total)

FsIdle ==
    /\ fsTotal = 0
    /\ fsSignatures = <<>>
    /\ fsBefore = 0
    /\ fsResult = <<>>
    /\ fsPc = "idle"

FsInit ==
    /\ fsTotal \in 1..MaxTotal
    /\ fsSignatures = <<>>
    /\ fsBefore = 0
    /\ fsResult = <<>>
    /\ fsPc = "loop"

\* The while test fails: the function returns.
FsReturn ==
    /\ fsPc = "loop"
    /\ Len(fsSignatures) >= fsTotal
    /\ fsPc' = "returned"
    /\ fsResult' = fs_return(fsSignatures, fsTotal)
    /\ UNCHANGED <<fsTotal, fsSignatures, fsBefore>>

\* rpc_request raises: the exception leaves fetch_signatures.
FsRpcError ==
    /\ fsPc = "loop"
    /\ Len(fsSignatures) < fsTotal
    /\ fsPc' = "raised"
    /\ UNCHANGED <<fsTotal, fsSignatures, fsBefore, fsResult>>

\* One iteration of the loop on the batch the RPC answered with.
FsIteration ==
    /\ fsPc = "loop"
    /\ Len(fsSignatures) < fsTotal
    /\ \E batch \in FsBatches :
         IF batch = <<>>
             THEN /\ fsPc' = "returned"
                  /\ fsResult' = fs_return(fsSignatures, fsTotal)
                  /\ UNCHANGED <<fsSignatures, fsBefore>>
         ELSE \E after \in {fetch_signatures_pass(fsSignatures, batch)} :
                /\ fsSignatures' = after.signatures
                /\ fsBefore' = after.before
                /\ IF after.before = 0
                       THEN /\ fsPc' = "returned"
                            /\ fsResult' = fs_return(after.signatures, fsTotal)
                   ELSE UNCHANGED <<fsPc, fsResult>>
    /\ UNCHANGED fsTotal


\* ------------------------------------------------ titan: SessionCrypto

\* A frame is its sequence number, whether it is at least 4 + 12 + 16 bytes
\* long, whether AES-GCM authenticates it, and whether its plaintext is JSON.
MaxSeq == 4
MaxFrames == 4
ScFrames == [ seq : 0..MaxSeq, long : BOOLEAN, authentic : BOOLEAN, json : BOOLEAN ]
ScInitialInbound == {0, 1}

\* decrypt_json with the sequence test left out: the mutation of decrypt_json.
decrypt_json_any_sequence(inbound, frame) ==
    IF ~frame.long THEN [ err |-> "ValueError", inbound |-> inbound ]
    ELSE IF ~frame.authentic THEN [ err |-> "InvalidTag", inbound |-> inbound ]
    ELSE IF ~frame.json THEN [ err |-> "JSONDecodeError", inbound |-> frame.seq ]
    ELSE [ err |-> "none", inbound |-> frame.seq ]

\* SessionCrypto.decrypt_json: the error raised ("none" for a returned
\* payload) and _inbound_seq after the call.
decrypt_json(inbound, frame) ==
    IF ~frame.long THEN [ err |-> "ValueError", inbound |-> inbound ]
    ELSE IF frame.seq # inbound + 1 THEN [ err |-> "SequenceMismatch", inbound |-> inbound ]
    ELSE IF ~frame.authentic THEN [ err |-> "InvalidTag", inbound |-> inbound ]
    ELSE IF ~frame.json THEN [ err |-> "JSONDecodeError", inbound |-> frame.seq ]
    ELSE [ err |-> "none", inbound |-> frame.seq ]

ScNoCall == [ called |-> FALSE ]

ScIdle ==
    /\ scInbound = 0
    /\ scAccepted = <<>>
    /\ scLast = ScNoCall

\* SessionCrypto.__init__ with initial_inbound.
ScInit ==
    /\ scInbound \in ScInitialInbound
    /\ scAccepted = <<>>
    /\ scLast = ScNoCall

\* A frame arrives and decrypt_json is called on it.
ScDecrypt ==
    /\ Len(scAccepted) < MaxFrames
    /\ \E frame \in ScFrames :
         \E after \in {decrypt_json(scInbound, frame)} :
           /\ scInbound' = after.inbound
           /\ scAccepted' = IF after.inbound # scInbound THEN Append(scAccepted, frame.seq)
                            ELSE scAccepted
           /\ scLast' = [ called |-> TRUE, frame |-> frame, before |-> scInbound, err |-> after.err ]


\* ------------------------------------- goonfi, obric_v2: batched fetches

\* The keys requested, and the keys sent in one round trip.
AcKeyCount == 5
ChunkSize == 2
AcKeys == [ i \in 1..AcKeyCount |-> i ]
Absent == <<"Absent">>

\* What getMultipleAccounts may answer for a chunk: a null value, or a list
\* no longer than the chunk whose entry at a position is the account of the
\* key at that position, or null for an account that does not exist.
AcResponses(chunk) ==
    { [ null |-> TRUE, value |-> <<>> ] }
    \cup UNION { { [ null |-> FALSE,
                     value |-> [ i \in 1..n |-> IF i \in missing THEN None ELSE <<"account", chunk[i]>> ] ] :
                   missing \in SUBSET (1..n) } : n \in 0..Len(chunk) }

\* goonfi rpc_get_multiple_accounts, one chunk: `value or []`, padded with
\* None to the length of the chunk.
goonfi_chunk_values(chunk, response) ==
    LET values == IF response.null THEN <<>> ELSE response.value
    IN  SubSeq(values \o Repeat(None, Len(chunk) - Min(Len(values), Len(chunk))), 1, Len(chunk))

\* obric_v2 AccountCache.fetch_many, one chunk: only a null value list is
\* replaced.
obric_chunk_values(chunk, response) ==
    IF response.null THEN Repeat(None, Len(chunk)) ELSE response.value

\* for pubkey, value in zip(keys, values): cache[pubkey] = value
zip_store(cache, keys, values) ==
    [ pubkey \in DOMAIN cache |->
        IF \E i \in 1..Min(Len(keys), Len(values)) : keys[i] = pubkey
            THEN values[CHOOSE i \in 1..Min(Len(keys), Len(values)) :
                            /\ keys[i] = pubkey
                            /\ \A j \in (i + 1)..Min(Len(keys), Len(values)) : keys[j] # pubkey]
        ELSE cache[pubkey] ]

\* The entry a response holds at each position of the chunk, None where it
\* holds none.
ac_answered(answered, chunk, response) ==
    [ pubkey \in DOMAIN answered |->
        IF \E i \in 1..Len(chunk) : chunk[i] = pubkey
            THEN LET i == CHOOSE i \in 1..Len(chunk) : chunk[i] = pubkey
                 IN  IF i <= Len(response.value) THEN response.value[i] ELSE None
        ELSE answered[pubkey] ]

AcIdle ==
    /\ acImpl = "none"
    /\ acPending = <<>>
    /\ acAggregated = [ keys |-> <<>>, values |-> <<>> ]
    /\ acCache = <<>>
    /\ acAnswered = <<>>
    /\ acPc = "idle"

AcInit ==
    /\ acImpl \in {"goonfi", "obric_v2"}
    /\ acPending = AcKeys
    /\ acAggregated = [ keys |-> <<>>, values |-> <<>> ]
    /\ acCache = [ pubkey \in 1..AcKeyCount |-> Absent ]
    /\ acAnswered = [ pubkey \in 1..AcKeyCount |-> Absent ]
    /\ acPc = "fetching"

\* goonfi: one round trip of rpc_get_multiple_accounts; after the last one
\* cache_accounts stores the aggregated list.
AcGoonfiRoundTrip ==
    /\ acImpl = "goonfi"
    /\ acPc = "fetching"
    /\ \E chunk \in {SubSeq(acPending, 1, Min(ChunkSize, Len(acPending)))} :
         \E response \in AcResponses(chunk) :
           \E collected \in {[ keys |-> acAggregated.keys \o chunk,
                               values |-> acAggregated.values \o goonfi_chunk_values(chunk, response) ]},
              rest \in {SubSeq(acPending, Len(chunk) + 1, Len(acPending))} :
             /\ acPending' = rest
             /\ acAnswered' = ac_answered(acAnswered, chunk, response)
             /\ IF rest = <<>>
                    THEN /\ acCache' = zip_store(acCache, collected.keys, collected.values)
                         /\ acAggregated' = [ keys |-> <<>>, values |-> <<>> ]
                         /\ acPc' = "done"
                ELSE /\ acAggregated' = collected
                     /\ UNCHANGED <<acCache, acPc>>
    /\ UNCHANGED acImpl

\* obric_v2: one pass of the while loop of fetch_many.
AcObricRoundTrip ==
    /\ acImpl = "obric_v2"
    /\ acPc = "fetching"
    /\ \E chunk \in {SubSeq(acPending, 1, Min(ChunkSize, Len(acPending)))} :
         \E response \in AcResponses(chunk) :
           \E rest \in {SubSeq(acPending, Len(chunk) + 1, Len(acPending))} :
             /\ acPending' = rest
             /\ acAnswered' = ac_answered(acAnswered, chunk, response)
             /\ acCache' = zip_store(acCache, chunk, obric_chunk_values(chunk, response))
             /\ acPc' = IF rest = <<>> THEN "done" ELSE "fetching"
    /\ UNCHANGED <<acImpl, acAggregated>>


\* ------------------------------------------- titan: TitanWsClient requests

\* Request ids wrap after MaxRequestId (999999 in the source).
MaxRequestId == 2
WsCallers == 1..3
WsIds == 1..MaxRequestId

\* _allocate_request_id: the id handed out and the new _next_request_id.
allocate_request_id(next) ==
    [ request_id |-> next, next |-> IF next < MaxRequestId THEN next + 1 ELSE 1 ]

\* for future in _pending.values(): if not future.done(): set_exception
ws_fail_pending(callers, pending) ==
    [ c \in DOMAIN callers |->
        IF callers[c].future = "waiting" /\ \E id \in DOMAIN pending : pending[id] = c
            THEN [ callers[c] EXCEPT !.future = "exception" ]
        ELSE callers[c] ]

\* _pending.clear()
ws_clear(pending) == [ id \in DOMAIN pending |-> 0 ]

\* _handle_message for a Response or an Error with a request id:
\* future = _pending.pop(request_id, None); if future and not future.done():
\* set its result.
ws_handle_response(callers, pending, request_id, outcome) ==
    [ callers |-> IF request_id \in DOMAIN pending /\ pending[request_id] # 0
                     /\ callers[pending[request_id]].future = "waiting"
                      THEN [ callers EXCEPT ![pending[request_id]].future = outcome ]
                  ELSE callers,
      pending |-> IF request_id \in DOMAIN pending
                      THEN [ pending EXCEPT ![request_id] = 0 ] ELSE pending ]

WsIdle ==
    /\ wsNextId = 0
    /\ wsPending = <<>>
    /\ wsCaller = <<>>
    /\ wsWs = "idle"
    /\ wsLink = "idle"
    /\ wsRecv = "idle"

\* TitanWsClient.__init__
WsInit ==
    /\ wsNextId = 1
    /\ wsPending = [ id \in WsIds |-> 0 ]
    /\ wsCaller = [ c \in WsCallers |-> [ pc |-> "idle", request_id |-> 0, future |-> "none" ] ]
    /\ wsWs = "none"
    /\ wsLink = "down"
    /\ wsRecv = "none"

\* send_request up to its first await of _send: connect() if _ws is not
\* set, allocate the id, create the future and store it in _pending.
WsRegister ==
    \E c \in WsCallers :
        /\ wsCaller[c].pc = "idle"
        /\ \E got \in {allocate_request_id(wsNextId)} :
             /\ wsNextId' = got.next
             /\ wsPending' = [ wsPending EXCEPT ![got.request_id] = c ]
             /\ wsCaller' = [ wsCaller EXCEPT ![c] =
                                [ pc |-> "sending", request_id |-> got.request_id, future |-> "waiting" ] ]
        /\ IF wsWs = "none"
               THEN wsWs' = "open" /\ wsLink' = "up" /\ wsRecv' = "running"
           ELSE UNCHANGED <<wsWs, wsLink, wsRecv>>

\* await self._send: raises when _ws is not set or the connection is down,
\* and the exception leaves send_request from outside its try block.
WsSend ==
    \E c \in WsCallers :
        /\ wsCaller[c].pc = "sending"
        /\ wsCaller' = [ wsCaller EXCEPT ![c].pc =
                           IF wsWs = "open" /\ wsLink = "up" THEN "waiting" ELSE "raised" ]
        /\ UNCHANGED <<wsNextId, wsPending, wsWs, wsLink, wsRecv>>

\* The server answers a request id with a Response or an Error and the
\* receive loop handles the message.
WsAnswer ==
    /\ wsRecv = "running" /\ wsLink = "up"
    /\ \E request_id \in WsIds, outcome \in {"result", "exception"} :
         \E after \in {ws_handle_response(wsCaller, wsPending, request_id, outcome)} :
           /\ wsCaller' = after.callers
           /\ wsPending' = after.pending
    /\ UNCHANGED <<wsNextId, wsWs, wsLink, wsRecv>>

\* An Error without a request id, or a message that cannot be decoded: the
\* receive loop sets the exception on every pending future and goes on.
WsBroadcastError ==
    /\ wsRecv = "running" /\ wsLink = "up"
    /\ wsCaller' = ws_fail_pending(wsCaller, wsPending)
    /\ UNCHANGED <<wsNextId, wsPending, wsWs, wsLink, wsRecv>>

\* wait_for returns or raises for a finished future; finally pops the id.
WsWake ==
    \E c \in WsCallers :
        /\ wsCaller[c].pc = "waiting"
        /\ wsCaller[c].future \in {"result", "exception"}
        /\ wsCaller' = [ wsCaller EXCEPT ![c].pc =
                           IF wsCaller[c].future = "result" THEN "returned" ELSE "raised" ]
        /\ wsPending' = [ wsPending EXCEPT ![wsCaller[c].request_id] = 0 ]
        /\ UNCHANGED <<wsNextId, wsWs, wsLink, wsRecv>>

\* wait_for times out: the future is cancelled; finally pops the id.
WsTimeout ==
    \E c \in WsCallers :
        /\ wsCaller[c].pc = "waiting"
        /\ wsCaller[c].future = "waiting"
        /\ wsCaller' = [ wsCaller EXCEPT ![c].pc = "raised", ![c].future = "exception" ]
        /\ wsPending' = [ wsPending EXCEPT ![wsCaller[c].request_id] = 0 ]
        /\ UNCHANGED <<wsNextId, wsWs, wsLink, wsRecv>>

\* The connection drops: the receive loop leaves its async for and runs its
\* finally block.
WsLinkDrop ==
    /\ wsRecv = "running" /\ wsLink = "up"
    /\ wsLink' = "down"
    /\ wsRecv' = "ended"
    /\ wsCaller' = ws_fail_pending(wsCaller, wsPending)
    /\ wsPending' = ws_clear(wsPending)
    /\ UNCHANGED <<wsNextId, wsWs>>

\* close(): the receive task is cancelled, _ws closed and unset, the
\* pending futures failed and the table cleared.
WsClose ==
    /\ wsWs = "open"
    /\ wsWs' = "none"
    /\ wsLink' = "down"
    /\ wsRecv' = "none"
    /\ wsCaller' = ws_fail_pending(wsCaller, wsPending)
    /\ wsPending' = ws_clear(wsPending)
    /\ UNCHANGED wsNextId


\* --------------------------------------- titan: TitanWsClient quote stream

\* The server answers the request and then sends StreamData 1..MaxData.
MaxData == 5

\* _handle_message for a StreamData of the stream: put it on the queue
\* registered for the stream id, if there is one.
sq_handle_stream_data(queue, registered, data) ==
    IF registered THEN Append(queue, data) ELSE queue

SqIdle ==
    /\ sqSent = 0
    /\ sqInbox = <<>>
    /\ sqFuture = "none"
    /\ sqCaller = "idle"
    /\ sqRegistered = FALSE
    /\ sqQueue = <<>>
    /\ sqConsumed = <<>>
    /\ sqArrived = <<>>

\* new_swap_quote_stream has sent its request and waits for the response.
SqInit ==
    /\ sqSent = 0
    /\ sqInbox = <<>>
    /\ sqFuture = "waiting"
    /\ sqCaller = "waiting"
    /\ sqRegistered = FALSE
    /\ sqQueue = <<>>
    /\ sqConsumed = <<>>
    /\ sqArrived = <<>>

\* The server sends its next message and the socket buffers it.
SqServerSend ==
    /\ sqSent <= MaxData
    /\ sqInbox' = Append(sqInbox, IF sqSent = 0 THEN <<"Response", 0>> ELSE <<"StreamData", sqSent>>)
    /\ sqSent' = sqSent + 1
    /\ UNCHANGED <<sqFuture, sqCaller, sqRegistered, sqQueue, sqConsumed, sqArrived>>

\* The receive loop takes the next buffered message and handles it.
SqHandle ==
    /\ sqInbox # <<>>
    /\ sqInbox' = Tail(sqInbox)
    /\ IF Head(sqInbox)[1] = "Response"
           THEN /\ sqFuture' = "result"
                /\ UNCHANGED <<sqQueue, sqArrived>>
       ELSE /\ sqQueue' = sq_handle_stream_data(sqQueue, sqRegistered, Head(sqInbox)[2])
            /\ sqArrived' = Append(sqArrived, Head(sqInbox)[2])
            /\ UNCHANGED sqFuture
    /\ UNCHANGED <<sqSent, sqCaller, sqRegistered, sqConsumed>>

\* new_swap_quote_stream resumes with the response and registers the queue
\* under the stream id.
SqRegister ==
    /\ sqCaller = "waiting"
    /\ sqFuture = "result"
    /\ sqCaller' = "returned"
    /\ sqRegistered' = TRUE
    /\ UNCHANGED <<sqSent, sqInbox, sqFuture, sqQueue, sqConsumed, sqArrived>>

\* The owner of the stream takes the next item from the queue.
SqConsume ==
    /\ sqCaller = "returned"
    /\ sqQueue # <<>>
    /\ sqConsumed' = Append(sqConsumed, Head(sqQueue))
    /\ sqQueue' = Tail(sqQueue)
    /\ UNCHANGED <<sqSent, sqInbox, sqFuture, sqCaller, sqRegistered, sqArrived>>


\* ---------------------------------------------------------- specifications

\* The variables of the decoders a specification does not run keep their idle
\* values.
Init == PdaInit /\ B58Idle /\ SarosIdle /\ AqIdle /\ ZfIdle /\ GfIdle /\ FpIdle /\ CvIdle /\ RtIdle /\ ObIdle /\ GlIdle /\ TxIdle /\ RrIdle /\ FsIdle /\ ScIdle /\ AcIdle /\ WsIdle /\ SqIdle

Next == PdaNext /\ UNCHANGED <<b58Vars, sarosVars, aqVars, zfVars, gfVars, fpVars, cvVars, rtVars, obVars, glVars, txVars, rrVars, fsVars, scVars, acVars, wsVars, sqVars>>

Spec == Init /\ [][Next]_vars

InitB58 == B58Init /\ PdaIdle /\ SarosIdle /\ AqIdle /\ ZfIdle /\ GfIdle /\ FpIdle /\ CvIdle /\ RtIdle /\ ObIdle /\ GlIdle /\ TxIdle /\ RrIdle /\ FsIdle /\ ScIdle /\ AcIdle /\ WsIdle /\ SqIdle

NextB58 == B58Next /\ UNCHANGED <<pdaVars, sarosVars, aqVars, zfVars, gfVars, fpVars, cvVars, rtVars, obVars, glVars, txVars, rrVars, fsVars, scVars, acVars, wsVars, sqVars>>

SpecB58 == InitB58 /\ [][NextB58]_vars

InitSaros == SarosInit /\ PdaIdle /\ B58Idle /\ AqIdle /\ ZfIdle /\ GfIdle /\ FpIdle /\ CvIdle /\ RtIdle /\ ObIdle /\ GlIdle /\ TxIdle /\ RrIdle /\ FsIdle /\ ScIdle /\ AcIdle /\ WsIdle /\ SqIdle

NextSaros ==
    \/ SarosFetchPoolState /\ UNCHANGED <<pdaVars, b58Vars, aqVars, zfVars, gfVars, fpVars, cvVars, rtVars, obVars, glVars, txVars, rrVars, fsVars, scVars, acVars, wsVars, sqVars>>
    \/ SarosParsePool /\ UNCHANGED <<pdaVars, b58Vars, aqVars, zfVars, gfVars, fpVars, cvVars, rtVars, obVars, glVars, txVars, rrVars, fsVars, scVars, acVars, wsVars, sqVars>>
    \/ SarosCheckPool /\ UNCHANGED <<pdaVars, b58Vars, aqVars, zfVars, gfVars, fpVars, cvVars, rtVars, obVars, glVars, txVars, rrVars, fsVars, scVars, acVars, wsVars, sqVars>>
    \/ SarosResolveOwners /\ UNCHANGED <<pdaVars, b58Vars, aqVars, zfVars, gfVars, fpVars, cvVars, rtVars, obVars, glVars, txVars, rrVars, fsVars, scVars, acVars, wsVars, sqVars>>

SpecSaros == InitSaros /\ [][NextSaros]_vars

InitAquifer == AqInit /\ PdaIdle /\ B58Idle /\ SarosIdle /\ ZfIdle /\ GfIdle /\ FpIdle /\ CvIdle /\ RtIdle /\ ObIdle /\ GlIdle /\ TxIdle /\ RrIdle /\ FsIdle /\ ScIdle /\ AcIdle /\ WsIdle /\ SqIdle

NextAquifer ==
    \/ AqDecodeInstance /\ UNCHANGED <<pdaVars, b58Vars, sarosVars, zfVars, gfVars, fpVars, cvVars, rtVars, obVars, glVars, txVars, rrVars, fsVars, scVars, acVars, wsVars, sqVars>>
    \/ AqDecodeBaseCoin /\ UNCHANGED <<pdaVars, b58Vars, sarosVars, zfVars, gfVars, fpVars, cvVars, rtVars, obVars, glVars, txVars, rrVars, fsVars, scVars, acVars, wsVars, sqVars>>
    \/ AqDecodeQuoteCoin /\ UNCHANGED <<pdaVars, b58Vars, sarosVars, zfVars, gfVars, fpVars, cvVars, rtVars, obVars, glVars, txVars, rrVars, fsVars, scVars, acVars, wsVars, sqVars>>
    \/ AqResolveVaults /\ UNCHANGED <<pdaVars, b58Vars, sarosVars, zfVars, gfVars, fpVars, cvVars, rtVars, obVars, glVars, txVars, rrVars, fsVars, scVars, acVars, wsVars, sqVars>>

SpecAquifer == InitAquifer /\ [][NextAquifer]_vars

InitZerofi == ZfInit /\ PdaIdle /\ B58Idle /\ SarosIdle /\ AqIdle /\ GfIdle /\ FpIdle /\ CvIdle /\ RtIdle /\ ObIdle /\ GlIdle /\ TxIdle /\ RrIdle /\ FsIdle /\ ScIdle /\ AcIdle /\ WsIdle /\ SqIdle

NextZerofi ==
    \/ ZfDecodePair /\ UNCHANGED <<pdaVars, b58Vars, sarosVars, aqVars, gfVars, fpVars, cvVars, rtVars, obVars, glVars, txVars, rrVars, fsVars, scVars, acVars, wsVars, sqVars>>
    \/ ZfResolveMints /\ UNCHANGED <<pdaVars, b58Vars, sarosVars, aqVars, gfVars, fpVars, cvVars, rtVars, obVars, glVars, txVars, rrVars, fsVars, scVars, acVars, wsVars, sqVars>>
    \/ ZfAssemble /\ UNCHANGED <<pdaVars, b58Vars, sarosVars, aqVars, gfVars, fpVars, cvVars, rtVars, obVars, glVars, txVars, rrVars, fsVars, scVars, acVars, wsVars, sqVars>>

SpecZerofi == InitZerofi /\ [][NextZerofi]_vars

InitGoonfi == GfInit /\ PdaIdle /\ B58Idle /\ SarosIdle /\ AqIdle /\ ZfIdle /\ FpIdle /\ CvIdle /\ RtIdle /\ ObIdle /\ GlIdle /\ TxIdle /\ RrIdle /\ FsIdle /\ ScIdle /\ AcIdle /\ WsIdle /\ SqIdle

NextGoonfi ==
    \/ GfReadPool /\ UNCHANGED <<pdaVars, b58Vars, sarosVars, aqVars, zfVars, fpVars, cvVars, rtVars, obVars, glVars, txVars, rrVars, fsVars, scVars, acVars, wsVars, sqVars>>
    \/ GfResolveAccounts /\ UNCHANGED <<pdaVars, b58Vars, sarosVars, aqVars, zfVars, fpVars, cvVars, rtVars, obVars, glVars, txVars, rrVars, fsVars, scVars, acVars, wsVars, sqVars>>
    \/ GfDeriveSigner /\ UNCHANGED <<pdaVars, b58Vars, sarosVars, aqVars, zfVars, fpVars, cvVars, rtVars, obVars, glVars, txVars, rrVars, fsVars, scVars, acVars, wsVars, sqVars>>
    \/ GfPrintSummary /\ UNCHANGED <<pdaVars, b58Vars, sarosVars, aqVars, zfVars, fpVars, cvVars, rtVars, obVars, glVars, txVars, rrVars, fsVars, scVars, acVars, wsVars, sqVars>>

SpecGoonfi == InitGoonfi /\ [][NextGoonfi]_vars

InitBump == FpInit /\ PdaIdle /\ B58Idle /\ SarosIdle /\ AqIdle /\ ZfIdle /\ GfIdle /\ CvIdle /\ RtIdle /\ ObIdle /\ GlIdle /\ TxIdle /\ RrIdle /\ FsIdle /\ ScIdle /\ AcIdle /\ WsIdle /\ SqIdle

NextBump ==
    \/ FpAttempt /\ UNCHANGED <<pdaVars, b58Vars, sarosVars, aqVars, zfVars, gfVars, cvVars, rtVars, obVars, glVars, txVars, rrVars, fsVars, scVars, acVars, wsVars, sqVars>>
    \/ FpExhausted /\ UNCHANGED <<pdaVars, b58Vars, sarosVars, aqVars, zfVars, gfVars, cvVars, rtVars, obVars, glVars, txVars, rrVars, fsVars, scVars, acVars, wsVars, sqVars>>

SpecBump == InitBump /\ [][NextBump]_vars

InitCurve == CvInit /\ PdaIdle /\ B58Idle /\ SarosIdle /\ AqIdle /\ ZfIdle /\ GfIdle /\ FpIdle /\ RtIdle /\ ObIdle /\ GlIdle /\ TxIdle /\ RrIdle /\ FsIdle /\ ScIdle /\ AcIdle /\ WsIdle /\ SqIdle

NextCurve == CvNext /\ UNCHANGED <<pdaVars, b58Vars, sarosVars, aqVars, zfVars, gfVars, fpVars, rtVars, obVars, glVars, txVars, rrVars, fsVars, scVars, acVars, wsVars, sqVars>>

SpecCurve == InitCurve /\ [][NextCurve]_vars

InitLayout == RtInit /\ PdaIdle /\ B58Idle /\ SarosIdle /\ AqIdle /\ ZfIdle /\ GfIdle /\ FpIdle /\ CvIdle /\ ObIdle /\ GlIdle /\ TxIdle /\ RrIdle /\ FsIdle /\ ScIdle /\ AcIdle /\ WsIdle /\ SqIdle

NextLayout ==
    \/ RtWrite /\ UNCHANGED <<pdaVars, b58Vars, sarosVars, aqVars, zfVars, gfVars, fpVars, cvVars, obVars, glVars, txVars, rrVars, fsVars, scVars, acVars, wsVars, sqVars>>
    \/ RtParsePool /\ UNCHANGED <<pdaVars, b58Vars, sarosVars, aqVars, zfVars, gfVars, fpVars, cvVars, obVars, glVars, txVars, rrVars, fsVars, scVars, acVars, wsVars, sqVars>>

SpecLayout == InitLayout /\ [][NextLayout]_vars

InitObric == ObInit /\ PdaIdle /\ B58Idle /\ SarosIdle /\ AqIdle /\ ZfIdle /\ GfIdle /\ FpIdle /\ CvIdle /\ RtIdle /\ GlIdle /\ TxIdle /\ RrIdle /\ FsIdle /\ ScIdle /\ AcIdle /\ WsIdle /\ SqIdle

NextObric ==
    ObAssemble /\ UNCHANGED <<pdaVars, b58Vars, sarosVars, aqVars, zfVars, gfVars, fpVars, cvVars, rtVars, glVars, txVars, rrVars, fsVars, scVars, acVars, wsVars, sqVars>>

\* The four decoders whose account lists follow an order table, each started
\* on its own inputs.
InitAssemble == InitSaros \/ InitAquifer \/ InitZerofi \/ InitObric

NextAssemble == NextSaros \/ NextAquifer \/ NextZerofi \/ NextObric

SpecAssemble == InitAssemble /\ [][NextAssemble]_vars

InitModule == GlInit /\ PdaIdle /\ B58Idle /\ SarosIdle /\ AqIdle /\ ZfIdle /\ GfIdle /\ FpIdle /\ CvIdle /\ RtIdle /\ ObIdle /\ TxIdle /\ RrIdle /\ FsIdle /\ ScIdle /\ AcIdle /\ WsIdle /\ SqIdle

NextModule ==
    \/ GlMain /\ UNCHANGED <<pdaVars, b58Vars, sarosVars, aqVars, zfVars, gfVars, fpVars, cvVars, rtVars, obVars, txVars, rrVars, fsVars, scVars, acVars, wsVars, sqVars>>
    \/ GlDecodeDexInstance /\ UNCHANGED <<pdaVars, b58Vars, sarosVars, aqVars, zfVars, gfVars, fpVars, cvVars, rtVars, obVars, txVars, rrVars, fsVars, scVars, acVars, wsVars, sqVars>>

SpecModule == InitModule /\ [][NextModule]_vars

InitDownload == TxInit /\ PdaIdle /\ B58Idle /\ SarosIdle /\ AqIdle /\ ZfIdle /\ GfIdle /\ FpIdle /\ CvIdle /\ RtIdle /\ ObIdle /\ GlIdle /\ RrIdle /\ FsIdle /\ ScIdle /\ AcIdle /\ WsIdle /\ SqIdle

NextDownload ==
    \/ TxStart /\ UNCHANGED <<pdaVars, b58Vars, sarosVars, aqVars, zfVars, gfVars, fpVars, cvVars, rtVars, obVars, glVars, rrVars, fsVars, scVars, acVars, wsVars, sqVars>>
    \/ TxFinish /\ UNCHANGED <<pdaVars, b58Vars, sarosVars, aqVars, zfVars, gfVars, fpVars, cvVars, rtVars, obVars, glVars, rrVars, fsVars, scVars, acVars, wsVars, sqVars>>
    \/ TxCollect /\ UNCHANGED <<pdaVars, b58Vars, sarosVars, aqVars, zfVars, gfVars, fpVars, cvVars, rtVars, obVars, glVars, rrVars, fsVars, scVars, acVars, wsVars, sqVars>>
    \/ TxReport /\ UNCHANGED <<pdaVars, b58Vars, sarosVars, aqVars, zfVars, gfVars, fpVars, cvVars, rtVars, obVars, glVars, rrVars, fsVars, scVars, acVars, wsVars, sqVars>>

SpecDownload == InitDownload /\ [][NextDownload]_vars

InitRotator == RrInit /\ PdaIdle /\ B58Idle /\ SarosIdle /\ AqIdle /\ ZfIdle /\ GfIdle /\ FpIdle /\ CvIdle /\ RtIdle /\ ObIdle /\ GlIdle /\ TxIdle /\ FsIdle /\ ScIdle /\ AcIdle /\ WsIdle /\ SqIdle

NextRotator ==
    \/ RrNext /\ UNCHANGED <<pdaVars, b58Vars, sarosVars, aqVars, zfVars, gfVars, fpVars, cvVars, rtVars, obVars, glVars, txVars, fsVars, scVars, acVars, wsVars, sqVars>>
    \/ RrAnswer /\ UNCHANGED <<pdaVars, b58Vars, sarosVars, aqVars, zfVars, gfVars, fpVars, cvVars, rtVars, obVars, glVars, txVars, fsVars, scVars, acVars, wsVars, sqVars>>

SpecRotator == InitRotator /\ [][NextRotator]_vars

InitSignatures == FsInit /\ PdaIdle /\ B58Idle /\ SarosIdle /\ AqIdle /\ ZfIdle /\ GfIdle /\ FpIdle /\ CvIdle /\ RtIdle /\ ObIdle /\ GlIdle /\ TxIdle /\ RrIdle /\ ScIdle /\ AcIdle /\ WsIdle /\ SqIdle

NextSignatures ==
    \/ FsReturn /\ UNCHANGED <<pdaVars, b58Vars, sarosVars, aqVars, zfVars, gfVars, fpVars, cvVars, rtVars, obVars, glVars, txVars, rrVars, scVars, acVars, wsVars, sqVars>>
    \/ FsRpcError /\ UNCHANGED <<pdaVars, b58Vars, sarosVars, aqVars, zfVars, gfVars, fpVars, cvVars, rtVars, obVars, glVars, txVars, rrVars, scVars, acVars, wsVars, sqVars>>
    \/ FsIteration /\ UNCHANGED <<pdaVars, b58Vars, sarosVars, aqVars, zfVars, gfVars, fpVars, cvVars, rtVars, obVars, glVars, txVars, rrVars, scVars, acVars, wsVars, sqVars>>

\* The call is one sequential thread and every request ends (rpc_request
\* passes a timeout), so the loop always takes its next step.
SpecSignatures == InitSignatures /\ [][NextSignatures]_vars /\ WF_vars(NextSignatures)

InitSession == ScInit /\ PdaIdle /\ B58Idle /\ SarosIdle /\ AqIdle /\ ZfIdle /\ GfIdle /\ FpIdle /\ CvIdle /\ RtIdle /\ ObIdle /\ GlIdle /\ TxIdle /\ RrIdle /\ FsIdle /\ AcIdle /\ WsIdle /\ SqIdle

NextSession ==
    \/ ScDecrypt /\ UNCHANGED <<pdaVars, b58Vars, sarosVars, aqVars, zfVars, gfVars, fpVars, cvVars, rtVars, obVars, glVars, txVars, rrVars, fsVars, acVars, wsVars, sqVars>>

SpecSession == InitSession /\ [][NextSession]_vars

InitCache == AcInit /\ PdaIdle /\ B58Idle /\ SarosIdle /\ AqIdle /\ ZfIdle /\ GfIdle /\ FpIdle /\ CvIdle /\ RtIdle /\ ObIdle /\ GlIdle /\ TxIdle /\ RrIdle /\ FsIdle /\ ScIdle /\ WsIdle /\ SqIdle

NextCache ==
    \/ AcGoonfiRoundTrip /\ UNCHANGED <<pdaVars, b58Vars, sarosVars, aqVars, zfVars, gfVars, fpVars, cvVars, rtVars, obVars, glVars, txVars, rrVars, fsVars, scVars, wsVars, sqVars>>
    \/ AcObricRoundTrip /\ UNCHANGED <<pdaVars, b58Vars, sarosVars, aqVars, zfVars, gfVars, fpVars, cvVars, rtVars, obVars, glVars, txVars, rrVars, fsVars, scVars, wsVars, sqVars>>

SpecCache == InitCache /\ [][NextCache]_vars

InitRequests == WsInit /\ PdaIdle /\ B58Idle /\ SarosIdle /\ AqIdle /\ ZfIdle /\ GfIdle /\ FpIdle /\ CvIdle /\ RtIdle /\ ObIdle /\ GlIdle /\ TxIdle /\ RrIdle /\ FsIdle /\ ScIdle /\ AcIdle /\ SqIdle

NextRequests ==
    \/ WsRegister /\ UNCHANGED <<pdaVars, b58Vars, sarosVars, aqVars, zfVars, gfVars, fpVars, cvVars, rtVars, obVars, glVars, txVars, rrVars, fsVars, scVars, acVars, sqVars>>
    \/ WsSend /\ UNCHANGED <<pdaVars, b58Vars, sarosVars, aqVars, zfVars, gfVars, fpVars, cvVars, rtVars, obVars, glVars, txVars, rrVars, fsVars, scVars, acVars, sqVars>>
    \/ WsAnswer /\ UNCHANGED <<pdaVars, b58Vars, sarosVars, aqVars, zfVars, gfVars, fpVars, cvVars, rtVars, obVars, glVars, txVars, rrVars, fsVars, scVars, acVars, sqVars>>
    \/ WsBroadcastError /\ UNCHANGED <<pdaVars, b58Vars, sarosVars, aqVars, zfVars, gfVars, fpVars, cvVars, rtVars, obVars, glVars, txVars, rrVars, fsVars, scVars, acVars, sqVars>>
    \/ WsWake /\ UNCHANGED <<pdaVars, b58Vars, sarosVars, aqVars, zfVars, gfVars, fpVars, cvVars, rtVars, obVars, glVars, txVars, rrVars, fsVars, scVars, acVars, sqVars>>
    \/ WsTimeout /\ UNCHANGED <<pdaVars, b58Vars, sarosVars, aqVars, zfVars, gfVars, fpVars, cvVars, rtVars, obVars, glVars, txVars, rrVars, fsVars, scVars, acVars, sqVars>>
    \/ WsLinkDrop /\ UNCHANGED <<pdaVars, b58Vars, sarosVars, aqVars, zfVars, gfVars, fpVars, cvVars, rtVars, obVars, glVars, txVars, rrVars, fsVars, scVars, acVars, sqVars>>
    \/ WsClose /\ UNCHANGED <<pdaVars, b58Vars, sarosVars, aqVars, zfVars, gfVars, fpVars, cvVars, rtVars, obVars, glVars, txVars, rrVars, fsVars, scVars, acVars, sqVars>>

\* The event loop runs every coroutine that is ready and every wait_for has
\* a timeout (request_timeout), so a send, a wake-up and a timeout that can
\* happen do happen. Nothing makes the server answer, the connection drop
\* or the owner call close().
WsFairness ==
    /\ WF_vars(WsSend /\ UNCHANGED <<pdaVars, b58Vars, sarosVars, aqVars, zfVars, gfVars, fpVars, cvVars, rtVars, obVars, glVars, txVars, rrVars, fsVars, scVars, acVars, sqVars>>)
    /\ WF_vars(WsWake /\ UNCHANGED <<pdaVars, b58Vars, sarosVars, aqVars, zfVars, gfVars, fpVars, cvVars, rtVars, obVars, glVars, txVars, rrVars, fsVars, scVars, acVars, sqVars>>)
    /\ WF_vars(WsTimeout /\ UNCHANGED <<pdaVars, b58Vars, sarosVars, aqVars, zfVars, gfVars, fpVars, cvVars, rtVars, obVars, glVars, txVars, rrVars, fsVars, scVars, acVars, sqVars>>)

SpecRequests == InitRequests /\ [][NextRequests]_vars /\ WsFairness

InitStream == SqInit /\ PdaIdle /\ B58Idle /\ SarosIdle /\ AqIdle /\ ZfIdle /\ GfIdle /\ FpIdle /\ CvIdle /\ RtIdle /\ ObIdle /\ GlIdle /\ TxIdle /\ RrIdle /\ FsIdle /\ ScIdle /\ AcIdle /\ WsIdle

NextStream ==
    \/ SqServerSend /\ UNCHANGED <<pdaVars, b58Vars, sarosVars, aqVars, zfVars, gfVars, fpVars, cvVars, rtVars, obVars, glVars, txVars, rrVars, fsVars, scVars, acVars, wsVars>>
    \/ SqHandle /\ UNCHANGED <<pdaVars, b58Vars, sarosVars, aqVars, zfVars, gfVars, fpVars, cvVars, rtVars, obVars, glVars, txVars, rrVars, fsVars, scVars, acVars, wsVars>>
    \/ SqRegister /\ UNCHANGED <<pdaVars, b58Vars, sarosVars, aqVars, zfVars, gfVars, fpVars, cvVars, rtVars, obVars, glVars, txVars, rrVars, fsVars, scVars, acVars, wsVars>>
    \/ SqConsume /\ UNCHANGED <<pdaVars, b58Vars, sarosVars, aqVars, zfVars, gfVars, fpVars, cvVars, rtVars, obVars, glVars, txVars, rrVars, fsVars, scVars, acVars, wsVars>>

SpecStream == InitStream /\ [][NextStream]_vars

\* ------------------------------------------------------------------ claims

\* The Ed25519 membership of a KeyLen-byte value, by definition: y < p and some
\* x of the encoded parity satisfies -x^2 + y^2 = 1 + d x^2 y^2 (mod p); x = 0
\* has no odd encoding.
OnEd25519(pubkey) ==
    LET y == PointY(pubkey)
        sign == PointSign(pubkey)
        y2 == (y * y) % ED25519_P
        dy2 == (ED25519_D * y2) % ED25519_P
    IN  /\ y < ED25519_P
        /\ \E x \in 0..(ED25519_P - 1) :
              /\ x % 2 = sign
              /\ LET x2 == (x * x) % ED25519_P
                 IN  (y2 - x2 - 1 - dy2 * x2) % ED25519_P = 0

PdaReturned == pdaPc = "done" /\ pdaResult.err = "none"

C2_PreimageOrder ==
    PdaReturned =>
        preimage(pdaDec, Append(seeds, <<pdaResult.bump>>), programId)
            = Concat(seeds) \o <<pdaResult.bump>> \o programId \o PDA_MARKER

\* C3: for one request, find_program_address of every decoder returns the
\* same (address, bump).
C3_DecodersAgree ==
    pdaPc = "done" =>
        \A d \in Decoders : find_program_address(d, seeds, programId) = pdaResult

\* C4: every address find_program_address returns is off the Ed25519 curve.
C4_ReturnedOffCurve == PdaReturned => ~OnEd25519(pdaResult.addr)

\* C5: decoding the encoding of a key gives the key back.
C5_RoundTrip == b58Pc = "decoded" => b58Out = key

\* C6: decoding the encoding of a key gives exactly KeyLen bytes.
C6_DecodedLength == b58Pc = "decoded" => Len(b58Out) = KeyLen

\* C10: once parse_pool has produced the pool fields, the buffer holds every
\* byte of every field the layout reads (the last one being the eighth fee).
C10_NoShortRead ==
    sarosState.parsed =>
        \A idx \in 0..(Len(FEE_FIELD_NAMES) - 1) :
            POOL_LAYOUT.fees + (idx + 1) * U64Len <= Len(sarosRaw)


\* A coin account has been decoded by decode_coin_account without an error.
AqCoinDecoded(coin) == coin.err = "none" /\ coin.msg = ""

\* C7: a coin decode succeeds only if the bump of the recomputed coin PDA
\* equals the bump the dex_instance account records for that coin.
C7_StoredBumpMatches ==
    /\ AqCoinDecoded(aqBase) => aqBase.coin_bump = aqInstance.base_coin_bump
    /\ AqCoinDecoded(aqQuote) => aqQuote.coin_bump = aqInstance.quote_coin_bump

\* The back-pointer check of decode_coin_account has been made on the base
\* coin: the account was there and long enough.
AqBaseBackPointerChecked ==
    /\ aqPc \in {"base", "failed"}
    /\ aqInstance.err = "none" /\ aqInstance.msg = ""
    /\ aqQuote = NoDecode
    /\ aqBase # NoDecode
    /\ aqBase.msg \notin {"account data empty", "coin data too short"}

\* C8: the back-pointer check on the base coin passes if and only if the
\* bytes the coin stores as its dex_instance are the address bytes of the
\* dex_instance account being decoded.
C8_BackPointerIsParentAddress ==
    AqBaseBackPointerChecked =>
        (aqBase.msg # "coin bound to another dex_instance"
            <=> PySlice(aqRpc.base_coin, COIN_LAYOUT.dex_instance,
                        COIN_LAYOUT.dex_instance + KeyLen) = AqInstanceKey)

\* C9: resolve_accounts returns no report after a failed check: a report comes
\* without a warning, the stored swap authority being one of the expected ones.
C9_NoReportAfterFailedCheck ==
    zfPc = "resolved" =>
        /\ zfOut.authority_warning = "None"
        /\ zfLayout.swap_authority_pda \in AUTHORITY_WHITELIST

\* C11: no result is returned and no summary is printed in which a role of the
\* swap account order is None or shown with the unresolved marker.
C11_EveryRoleResolved ==
    /\ gfPc \in {"returned", "printed"} =>
           \A role \in DOMAIN gfOut.core_accounts : gfOut.core_accounts[role] # None
    /\ gfPc = "printed" =>
           \A i \in 1..Len(gfSummary) : gfSummary[i][3] # <<"<unresolved>">>

\* A seed of the request is longer than the seed length create_program_address
\* accepts.
SeedTooLong == \E i \in 1..Len(seeds) : Len(seeds[i]) > MaxSeedLen

\* C12: a derivation whose request holds a seed longer than the maximum ends
\* with the seed-too-long error, not with a returned address or another error.
C12_SeedTooLongReachesCaller ==
    (pdaPc = "done" /\ SeedTooLong) =>
        /\ pdaResult.err = "ValueError"
        /\ pdaResult.msg = "seed too long"

\* The lookup of the base mint gave the id of a known token program.
ZfBaseOwnerKnown == zfRpc.base_owner \in {TOKEN_PROGRAM_V1, TOKEN_PROGRAM_2022}

\* C13: zerofi resolve_accounts returns an account list only when the token
\* program was determined, by the token-2022 flag of the pair or by the owner
\* of the base mint being a known token program; otherwise it fails.
C13_NoDefaultTokenProgram ==
    zfPc = "resolved" => (zfLayout.uses_token2022 \/ ZfBaseOwnerKnown)

\* The KeyLen-byte key a Base58 text stands for.
KeyOfText(text) == RJust(MinBytesBE(DecodeDigits(text)), KeyLen)

\* The derivation C14 describes: seeds [owner, token program, mint], each the
\* bytes of its key, under the associated token program id.
AtaOfKeys(owner, mint, token_program) ==
    find_program_address("goonfi",
        << KeyOfText(owner), KeyOfText(token_program), KeyOfText(mint) >>,
        KeyOfText(ASSOCIATED_TOKEN_PROGRAM_ID))

\* parse_pool was given a user and went past the two find_ata calls.
GfAtaCalled ==
    /\ gfUser # <<>>
    /\ \/ gfPc = "accounts"
       \/ gfPc = "failed" /\ gfOut.msg \in {"user base ATA failed", "user quote ATA failed"}

\* C14: goonfi find_ata gives the user's base token account as the address
\* derived from the keys of the owner, the token program and the mint; it
\* fails only when that derivation finds no address.
C14_FindAtaIsPdaOfKeys ==
    GfAtaCalled =>
        \A base \in {AtaOfKeys(gfUser, gfPool.base_mint, gfRpc.base_mint_owner)} :
            IF base.err = "none"
                THEN /\ gfPc = "accounts"
                     /\ gfCore.user_base_token = b58encode("goonfi", base.addr)
            ELSE gfPc = "failed"

\* Every bump of the request gives a digest on the curve.
EveryBumpOnCurve ==
    \A b \in 0..MaxBump :
        is_on_curve(pdaDec, pda_digest(pdaDec, Append(seeds, <<b>>), programId))

\* C15: a request of more than MaxSeedCount seeds ends with the error for too
\* many seeds, and a request of at most MaxSeedCount seeds, none too long,
\* fails only when every bump gives a digest on the curve.
C15_SeedCountLimit ==
    pdaPc = "done" =>
        /\ Len(seeds) > MaxSeedCount => pdaResult.msg = "Seeds count too large"
        /\ (Len(seeds) <= MaxSeedCount /\ ~SeedTooLong /\ pdaResult.err # "none")
               => EveryBumpOnCurve

\* The bumps the loop has tried are MaxBump, MaxBump - 1, ... in that order.
FpDescending == \A i \in 1..Len(fpTried) : fpTried[i] = MaxBump - (i - 1)

HasValidX(y) ==
    /\ CurveV(y) # 0
    /\ \E x \in 0..(ED25519_P - 1) : (x * x) % ED25519_P = CurveX2(y)

\* C17: is_on_curve returns true only for a value whose y is below p and has
\* a valid x; for y >= p and for a y without a valid x it returns false.
C17_TrueOnlyOnValidPoints ==
    (cvDec # "none" /\ cvOut) =>
        /\ PointY(cvPoint) < ED25519_P
        /\ HasValidX(PointY(cvPoint))

\* C18: the text a decoder gives for an all-zero key is the null address,
\* KeyLen characters "1", whichever decoder encodes it.
C18_ZeroKeyIsNullAddress ==
    (b58Pc \in {"encoded", "decoded"} /\ key = Zeros(KeyLen)) =>
        b58Text = Repeat("1", KeyLen)

\* What parse_pool gives for a field that was read back as written: numbers
\* as they are, is_initialized as a truth value, keys as their text.
RtExpected(f) ==
    [ parsed |-> TRUE,
      version |-> f.version,
      is_initialized |-> (f.is_initialized = 1),
      bump_seed |-> f.bump_seed,
      token_program |-> b58encode("saros", f.token_program),
      token_a |-> b58encode("saros", f.token_a),
      token_b |-> b58encode("saros", f.token_b),
      pool_mint |-> b58encode("saros", f.pool_mint),
      fee_account |-> b58encode("saros", f.fee_account),
      token_a_mint |-> b58encode("saros", f.token_a_mint),
      token_b_mint |-> b58encode("saros", f.token_b_mint),
      token_a_deposit |-> f.token_a_deposit,
      token_b_deposit |-> f.token_b_deposit,
      token_a_fees |-> f.token_a_fees,
      token_b_fees |-> f.token_b_fees,
      curve_type |-> f.curve_type,
      fees |-> f.fees ]

\* C19: decoding the buffer the fields were written to gives every field the
\* value it was written with.
C19_LayoutRoundTrip == rtPc = "decoded" => rtOut = RtExpected(rtFields)

\* The role labels of an account list, in its order.
Roles(accounts) == [ i \in 1..Len(accounts) |-> accounts[i][1] ]

\* The order tables: the roles of the swap instruction of each protocol.
AQUIFER_ORDER ==
    << "sysvar_instructions", "user_authority", "token_program_base", "mm_account",
       "base_mint", "token_program_quote", "base_coin", "quote_mint", "dex",
       "dex_instance", "base_oracle", "quote_oracle", "base_vault_authority",
       "base_vault_token_account", "quote_vault_authority", "quote_vault_token_account" >>

SAROS_ORDER ==
    << "swap_state", "authority", "user_transfer_authority", "user_source",
       "pool_source", "pool_destination", "user_destination", "pool_mint",
       "fee_account", "token_program" >>

ZEROFI_ORDER ==
    << "pair", "vault_info_base", "vault_base", "vault_info_quote", "vault_quote",
       "user_base_token", "user_quote_token", "swap_authority", "token_program",
       "sysvar_instructions" >>

OBRIC_SWAP_ORDER ==
    << "trading_pair", "mint_x", "mint_y", "reserve_x", "reserve_y",
       "user_token_account_x", "user_token_account_y", "protocol_fee",
       "x_price_feed", "y_price_feed", "user_authority", "token_program" >>

OBRIC_SWAP2_ORDER ==
    << "trading_pair", "second_reference_oracle", "third_reference_oracle",
       "reserve_x", "reserve_y", "user_source_token", "user_destination_token",
       "reference_oracle", "x_price_feed", "y_price_feed", "swap_authority",
       "token_program" >>

C21_DecodeDependsOnArgumentsOnly ==
    \A i, j \in 1..Len(glResults) : glResults[i] = glResults[j]

\* The seed the aquifer docstring names for the pool account.
DexInstanceSeed == <<100, 105>>

\* The PDA of ["dex_instance", dex, [instance_id]] for the decoded instance.
DexInstancePda(instance) ==
    find_program_address("aquifer",
        << DexInstanceSeed, b58decode("aquifer", instance.dex), <<instance.instance_id>> >>,
        b58decode("aquifer", AQUIFER_PROGRAM_ID))

\* C23: resolve_accounts returns an account list only for a pool address that
\* is the PDA of ["dex_instance", dex, [instance_id]].
C23_PoolAddressIsInstancePda ==
    aqPc = "resolved" => DexInstancePda(aqInstance).addr = AqInstanceKey

TxFailed == { txFailures[i].sig : i \in 1..Len(txFailures) }

C25_RaisedAfterEveryEndpoint ==
    \A t \in RrThreads :
        rrCall[t].pc = "raised" =>
            /\ Len(rrCall[t].errors) = rrEndpoints
            /\ \A endpoint \in 0..(rrEndpoints - 1) :
                 \E i \in 1..Len(rrCall[t].errors) : rrCall[t].errors[i] = endpoint

\* C26: fetch_signatures ends; an iteration that stays in the loop has
\* appended at least one signature; the returned list has at most total
\* entries.
C26_SignaturesLoopEnds ==
    /\ <>(fsPc \in {"returned", "raised"})
    /\ [][(fsPc = "loop" /\ fsPc' = "loop") => Len(fsSignatures') > Len(fsSignatures)]_vars
    /\ [](fsPc = "returned" => Len(fsResult) <= fsTotal)

\* The loop ran more than once and the collected list was cut to total.
C26_Witness ==
    /\ fsPc = "returned"
    /\ Len(fsSignatures) > fsTotal
    /\ Len(fsResult) = fsTotal
    /\ fsTotal > 1

\* C24: decrypt_json returns a payload only for the frame whose sequence
\* number is the inbound counter plus one; a full frame with any other
\* sequence number raises SequenceMismatch; no frame with another sequence
\* number moves the counter; the frames that moved it are consecutive.
C24_ConsecutiveFrames ==
    /\ scLast.called =>
         /\ scLast.err = "none" => scLast.frame.seq = scLast.before + 1
         /\ scLast.frame.seq # scLast.before + 1 =>
              /\ scInbound = scLast.before
              /\ scLast.err # "none"
              /\ scLast.frame.long => scLast.err = "SequenceMismatch"
    /\ \A i \in 1..(Len(scAccepted) - 1) : scAccepted[i + 1] = scAccepted[i] + 1

\* Two frames were accepted in sequence and then a replayed one was refused.
C24_Witness ==
    /\ scLast.called
    /\ scLast.err = "SequenceMismatch"
    /\ Len(scAccepted) >= 2
    /\ scLast.frame.seq = scInbound

\* C27: after the chunked fetch every requested key has a cache entry, the
\* entry the response held at the key's position, None where it held none.
C27_EveryKeyCached ==
    acPc = "done" =>
        \A pubkey \in 1..AcKeyCount :
            /\ acCache[pubkey] # Absent
            /\ acCache[pubkey] = acAnswered[pubkey]

\* C28: every entry of the pending table is eventually removed from it.
C28_PendingEventuallyRemoved ==
    \A request_id \in WsIds : (wsPending[request_id] # 0) ~> (wsPending[request_id] = 0)

\* C29: the id a request is given is not the id of an entry of the pending
\* table.
C29_FreshRequestId ==
    [][\A c \in WsCallers :
         (wsCaller[c].pc = "idle" /\ wsCaller'[c].pc = "sending")
             => wsPending[wsCaller'[c].request_id] = 0]_vars

\* C30: once new_swap_quote_stream has returned the queue, the queue and
\* what was taken from it hold every StreamData handled since the response,
\* in arrival order.
C30_StreamDataDelivered ==
    sqCaller = "returned" => sqConsumed \o sqQueue = sqArrived

====
